---- MODULE Spec2Model ----
(***************************************************************************)
(* Auction discovery and normalisation pipeline of auction_reporter:       *)
(* lambda_handler -> search_all_sources -> CentralSulAdapter.search        *)
(* (_selenium_search, _deduplicate_auctions, _filter_auctions,             *)
(* _fetch_descriptions) -> Auction.from_dict / to_dict, together with the  *)
(* pure functions those steps are built from.                              *)
(*                                                                         *)
(* Representation.  A Python str that the code only compares (url, image   *)
(* src, source id) is a TLA+ string.  A Python str that the code lowers,   *)
(* strips, normalises or searches (query, title, description, variants) is *)
(* a sequence of characters, one token per character.  An accented         *)
(* character is written base letter + mark ("a'" is a-acute, "a~" is       *)
(* a-tilde, "c," is c-cedilla); the combining marks NFD produces are "+'", *)
(* "+~" and "+,".  A dict is a function from key names to values; a        *)
(* missing key is a name outside its DOMAIN.                               *)
(***************************************************************************)
EXTENDS Integers, Sequences, FiniteSets, TLC

VARIABLES
    pc,        \* position of the running call
    arg,       \* arguments of the call under study (the event, for the handler)
    ret,       \* its return value (and what it left in its arguments)
    environ,   \* os.environ
    driver,    \* the webdriver of search_all_sources: "None", "open", "closed"
    attempt,   \* loop variable of get_chrome_driver
    all_auction_elements,  \* local of _selenium_search: the elements found
    all_auctions,  \* the list in flight: raw_auctions, auctions, all_auctions
    fetched,   \* the detail pages navigated to, in order
    quits,     \* calls of driver.quit()
    sleeps,    \* calls of time.sleep(retry_delay)
    caught,    \* the except clauses that cut a call short, by function, in order
    raw_candidates  \* what _selenium_search returned to search(), as returned

pipeVars == <<environ, driver, attempt, all_auction_elements, all_auctions,
              fetched, quits, sleeps, caught, raw_candidates>>

vars == <<pc, arg, ret, environ, driver, attempt, all_auction_elements,
          all_auctions, fetched, quits, sleeps, caught, raw_candidates>>

-----------------------------------------------------------------------------
(* Python values *)

None == "<None>"

EmptyDict == <<>>

\* bool(d) of a dict
NonEmptyDict(d) == DOMAIN d # {}

\* bool(s) of an opaque str-or-None value
Truthy(s) == s # None /\ s # ""

\* d.get(k) for an opaque value
Get(d, k) == IF k \in DOMAIN d THEN d[k] ELSE None

\* d.get(k, '') for a text value
GetText(d, k) == IF k \in DOMAIN d THEN d[k] ELSE <<>>

\* {**d, k: v}
Put(d, k, v) == (k :> v) @@ d

\* d without key k
Drop(d, k) == [x \in (DOMAIN d) \ {k} |-> d[x]]

Min(S) == CHOOSE x \in S : \A y \in S : x <= y

-----------------------------------------------------------------------------
(* str methods *)

CasePairs ==
    { <<"A","a">>, <<"B","b">>, <<"C","c">>, <<"D","d">>, <<"E","e">>,
      <<"F","f">>, <<"G","g">>, <<"H","h">>, <<"I","i">>, <<"J","j">>,
      <<"K","k">>, <<"L","l">>, <<"M","m">>, <<"N","n">>, <<"O","o">>,
      <<"P","p">>, <<"Q","q">>, <<"R","r">>, <<"S","s">>, <<"T","t">>,
      <<"U","u">>, <<"V","v">>, <<"W","w">>, <<"X","x">>, <<"Y","y">>,
      <<"Z","z">>, <<"A'","a'">>, <<"O'","o'">> }

LowerChar(c) ==
    IF \E p \in CasePairs : p[1] = c
    THEN (CHOOSE p \in CasePairs : p[1] = c)[2]
    ELSE c

\* s.lower()
lower(s) == [i \in 1..Len(s) |-> LowerChar(s[i])]

\* the characters str.strip() removes
Whitespace == { " ", "\n", "\t" }

RECURSIVE lstrip(_)
lstrip(s) == IF s # <<>> /\ Head(s) \in Whitespace THEN lstrip(Tail(s)) ELSE s

RECURSIVE rstrip(_)
rstrip(s) ==
    IF s # <<>> /\ s[Len(s)] \in Whitespace
    THEN rstrip(SubSeq(s, 1, Len(s) - 1))
    ELSE s

\* s.strip()
strip(s) == rstrip(lstrip(s))

\* t in s, for str s and t
Contains(s, t) ==
    \E i \in 0..(Len(s) - Len(t)) : SubSeq(s, i + 1, i + Len(t)) = t

\* x in l, for a list l
InList(l, x) == \E i \in 1..Len(l) : l[i] = x

\* s.replace(c, '') for a one-character c
RECURSIVE RemoveChar(_, _)
RemoveChar(s, c) ==
    IF s = <<>> THEN <<>>
    ELSE IF Head(s) = c THEN RemoveChar(Tail(s), c)
    ELSE <<Head(s)>> \o RemoveChar(Tail(s), c)

\* canonical decompositions of the accented characters (base, combining mark)
Decompositions ==
    { <<"a'", "a", "+'">>, <<"e'", "e", "+'">>, <<"i'", "i", "+'">>,
      <<"o'", "o", "+'">>, <<"u'", "u", "+'">>, <<"a~", "a", "+~">>,
      <<"c,", "c", "+,">>, <<"A'", "A", "+'">>, <<"O'", "O", "+'">> }

\* unicodedata.category(c) == 'Mn'
CombiningMarks == {"+'", "+~", "+,"}

\* unicodedata.normalize('NFD', s)
RECURSIVE NFD(_)
NFD(s) ==
    IF s = <<>> THEN <<>>
    ELSE LET c == Head(s) IN
         (IF \E d \in Decompositions : d[1] = c
          THEN LET dec == CHOOSE d \in Decompositions : d[1] = c
               IN <<dec[2], dec[3]>>
          ELSE <<c>>) \o NFD(Tail(s))

RECURSIVE DropMarks(_)
DropMarks(s) ==
    IF s = <<>> THEN <<>>
    ELSE IF Head(s) \in CombiningMarks THEN DropMarks(Tail(s))
    ELSE <<Head(s)>> \o DropMarks(Tail(s))

\* ''.join(c for c in unicodedata.normalize('NFD', s) if category(c) != 'Mn')
RemoveAccents(s) == DropMarks(NFD(s))

-----------------------------------------------------------------------------
(* src/config.py *)

FallbackUrlItapiruba ==
    "https://www.centralsuldeleiloes.com.br/leilao/9867/lote/235407/imovel-com-area-de-375-00m2-no-loteamento-balneario-itapiruba-no-municipio-de-laguna-sc"

\* LOCATIONS, in the dict's insertion order; the dict key is field id
LOCATIONS ==
    << [ id |-> <<"i","t","a","p","i","r","u","b","a">>, name |-> <<"I","t","a","p","i","r","u","b","a">>, state |-> <<"S","C">>,
         aliases |-> << <<"i","t","a","p","i","r","u","b","a'">>, <<"i","t","a","p","i","r","u","b","a","/","s","c">>, <<"i","t","a","p","i","r","u","b","a'","/","s","c">> >>,
         fallback_url |-> FallbackUrlItapiruba ],
       [ id |-> <<"f","l","o","r","i","a","n","o","p","o","l","i","s">>, name |-> <<"F","l","o","r","i","a","n","o'","p","o","l","i","s">>, state |-> <<"S","C">>,
         aliases |-> << <<"f","l","o","r","i","p","a">>, <<"f","l","o","r","i","a","n","o","p","o","l","i","s","/","s","c">>, <<"f","l","o","r","i","a","n","o'","p","o","l","i","s","/","s","c">> >> ],
       [ id |-> <<"b","a","l","n","e","a","r","i","o","-","c","a","m","b","o","r","i","u">>, name |-> <<"B","a","l","n","e","a'","r","i","o"," ","C","a","m","b","o","r","i","u'">>, state |-> <<"S","C">>,
         aliases |-> << <<"b","a","l","n","e","a","r","i","o"," ","c","a","m","b","o","r","i","u">>, <<"b","c">>, <<"b","a","l","n","e","a","r","i","o">>, <<"c","a","m","b","o","r","i","u'">>, <<"c","a","m","b","o","r","i","u">> >> ],
       [ id |-> <<"s","a","o","-","p","a","u","l","o">>, name |-> <<"S","a~","o"," ","P","a","u","l","o">>, state |-> <<"S","P">>,
         aliases |-> << <<"s","a","o"," ","p","a","u","l","o">>, <<"s","p">>, <<"s","a","o"," ","p","a","u","l","o","/","s","p">>, <<"s","a~","o"," ","p","a","u","l","o","/","s","p">> >> ],
       [ id |-> <<"r","i","o","-","d","e","-","j","a","n","e","i","r","o">>, name |-> <<"R","i","o"," ","d","e"," ","J","a","n","e","i","r","o">>, state |-> <<"R","J">>,
         aliases |-> << <<"r","i","o">>, <<"r","j">>, <<"r","i","o"," ","d","e"," ","j","a","n","e","i","r","o">>, <<"r","i","o"," ","d","e"," ","j","a","n","e","i","r","o","/","r","j">> >> ] >>

\* config.get("aliases", [])
Aliases(config) == IF "aliases" \in DOMAIN config THEN config.aliases ELSE <<>>

\* the three loops of get_location_config: the locations each one accepts
ExactMatches(query_lower) ==
    { i \in 1..Len(LOCATIONS) :
        query_lower = LOCATIONS[i].id \/ query_lower = lower(LOCATIONS[i].name) }

AliasMatches(query_lower) ==
    { i \in 1..Len(LOCATIONS) :
        \E k \in 1..Len(Aliases(LOCATIONS[i])) :
            lower(Aliases(LOCATIONS[i])[k]) = query_lower }

PartialMatches(query_lower) ==
    { i \in 1..Len(LOCATIONS) :
        \/ Contains(query_lower, LOCATIONS[i].id)
        \/ Contains(LOCATIONS[i].id, query_lower)
        \/ \E k \in 1..Len(Aliases(LOCATIONS[i])) :
              \/ Contains(query_lower, lower(Aliases(LOCATIONS[i])[k]))
              \/ Contains(lower(Aliases(LOCATIONS[i])[k]), query_lower) }

get_location_config(query) ==
    LET query_lower == strip(lower(query)) IN
    IF ExactMatches(query_lower) # {} THEN LOCATIONS[Min(ExactMatches(query_lower))]
    ELSE IF AliasMatches(query_lower) # {} THEN LOCATIONS[Min(AliasMatches(query_lower))]
    ELSE IF PartialMatches(query_lower) # {} THEN LOCATIONS[Min(PartialMatches(query_lower))]
    ELSE EmptyDict

-----------------------------------------------------------------------------
(* CentralSulAdapter._generate_query_variations *)

\* the list comprehension [alias.lower() for alias in aliases]
LowerAll(l) == [i \in 1..Len(l) |-> lower(l[i])]

\* the loop over LOCATIONS.items() that appends "{query}/{state}" and breaks
CityStateVariation(query) ==
    LET hits == { i \in 1..Len(LOCATIONS) :
                    \/ InList(Aliases(LOCATIONS[i]), query)
                    \/ Contains(LOCATIONS[i].id, query) }
    IN IF hits = {} THEN <<>>
       ELSE << query \o <<"/">> \o lower(LOCATIONS[Min(hits)].state) >>

\* the branch without its "add all aliases" step
KnownLocationVariations_NoAliases(config) ==
    << lower(config.name) >>
    \o (IF "state" \in DOMAIN config
        THEN << lower(config.name) \o <<"/">> \o lower(config.state) >>
        ELSE <<>>)

\* variations of the branch taken when get_location_config found a location
KnownLocationVariations(config) ==
    << lower(config.name) >>
    \o LowerAll(Aliases(config))
    \o (IF "state" \in DOMAIN config
        THEN << lower(config.name) \o <<"/">> \o lower(config.state) >>
        ELSE <<>>)

\* variations of the general approach
GeneralVariations(query) ==
    (IF RemoveAccents(query) # query THEN << RemoveAccents(query) >> ELSE <<>>)
    \o (IF InList(query, "/")
        THEN << RemoveChar(query, "/") >>
        ELSE CityStateVariation(query))

\* the closing loop: lowercase, keep the first occurrence of each
RECURSIVE UniqueLower(_, _)
UniqueLower(variations, unique_variations) ==
    IF variations = <<>> THEN unique_variations
    ELSE LET var_lower == lower(Head(variations)) IN
         UniqueLower(Tail(variations),
                     IF InList(unique_variations, var_lower)
                     THEN unique_variations
                     ELSE Append(unique_variations, var_lower))

_generate_query_variations(raw_query) ==
    LET query == strip(lower(raw_query))
        location_config == get_location_config(query)
        variations ==
            << query >>
            \o (IF NonEmptyDict(location_config)
                THEN KnownLocationVariations(location_config)
                ELSE GeneralVariations(query))
    IN UniqueLower(variations, <<>>)

-----------------------------------------------------------------------------
(* CentralSulAdapter._deduplicate_auctions *)

\* url in unique_auctions: the dict is kept as the list of its values, in
\* insertion order, each value filed under its own url
HasUrl(unique_auctions, url) ==
    \E j \in 1..Len(unique_auctions) : unique_auctions[j].url = url

RECURSIVE DedupLoop(_, _)
DedupLoop(auctions, unique_auctions) ==
    IF auctions = <<>> THEN unique_auctions
    ELSE LET auction == Head(auctions)
             url == Get(auction, "url")
         IN DedupLoop(Tail(auctions),
                      IF Truthy(url) /\ ~HasUrl(unique_auctions, url)
                      THEN Append(unique_auctions, auction)
                      ELSE unique_auctions)

\* the loop stopping one record short of the end of the list
_deduplicate_auctions_SkipsLast(auctions) ==
    DedupLoop(SubSeq(auctions, 1, Len(auctions) - 1), <<>>)

\* the loop without the "url not in unique_auctions" test
RECURSIVE KeepAllWithUrl(_)
KeepAllWithUrl(auctions) ==
    IF auctions = <<>> THEN <<>>
    ELSE (IF Truthy(Get(Head(auctions), "url")) THEN << Head(auctions) >> ELSE <<>>)
         \o KeepAllWithUrl(Tail(auctions))

_deduplicate_auctions_KeepsAll(auctions) == KeepAllWithUrl(auctions)

_deduplicate_auctions(auctions) == DedupLoop(auctions, <<>>)

\* the same loop, inline in lambda_handler
HandlerDedup(auctions) == DedupLoop(auctions, <<>>)

-----------------------------------------------------------------------------
(* CentralSulAdapter._filter_auctions *)

\* title + ' ' + description + ' ' + auction_title, each lowercased
AuctionText(auction) ==
    lower(GetText(auction, "title")) \o <<" ">>
    \o lower(GetText(auction, "description")) \o <<" ">>
    \o lower(GetText(auction, "auction_title"))

\* the inner loop: the first variation found in the text, or None
NoMatch == << None >>

\* the inner loop without its break: the last variation found wins
MatchedVariation_NoBreak(query_variations, auction_text) ==
    LET hits == { i \in 1..Len(query_variations) :
                    Contains(auction_text, query_variations[i]) }
    IN IF hits = {} THEN NoMatch
       ELSE query_variations[CHOOSE i \in hits : \A j \in hits : j <= i]

MatchedVariation(query_variations, auction_text) ==
    LET hits == { i \in 1..Len(query_variations) :
                    Contains(auction_text, query_variations[i]) }
    IN IF hits = {} THEN NoMatch ELSE query_variations[Min(hits)]

\* the test written `is not None`: the empty variant counts as a match
MatchedTruthy_NotNone(matched_variation) ==
    matched_variation # NoMatch

\* bool(matched_variation): None and '' are both false
MatchedTruthy(matched_variation) ==
    matched_variation # NoMatch /\ matched_variation # <<>>

MatchReason(matched_variation) ==
    <<"M","a","t","c","h","e","d"," ","t","e","r","m",":"," ">> \o matched_variation

RECURSIVE FilterLoop(_, _)
FilterLoop(raw_auctions, query_variations) ==
    IF raw_auctions = <<>> THEN <<>>
    ELSE LET auction == Head(raw_auctions)
             matched_variation ==
                 MatchedVariation(query_variations, AuctionText(auction))
         IN (IF MatchedTruthy(matched_variation)
             THEN << Put(auction, "match_reason", MatchReason(matched_variation)) >>
             ELSE <<>>)
            \o FilterLoop(Tail(raw_auctions), query_variations)

\* the caller's list after the call: the loop writes match_reason into the
\* records it keeps, which are the caller's own dicts
MarkedInPlace(raw_auctions, query) ==
    LET query_variations == _generate_query_variations(query) IN
    [ i \in 1..Len(raw_auctions) |->
        LET matched_variation ==
                MatchedVariation(query_variations, AuctionText(raw_auctions[i]))
        IN IF MatchedTruthy(matched_variation)
           THEN Put(raw_auctions[i], "match_reason", MatchReason(matched_variation))
           ELSE raw_auctions[i] ]

\* the filter matching the typed query alone, without its variations
_filter_auctions_QueryOnly(raw_auctions, query) ==
    FilterLoop(raw_auctions, << strip(lower(query)) >>)

_filter_auctions(raw_auctions, query) ==
    FilterLoop(raw_auctions, _generate_query_variations(query))

-----------------------------------------------------------------------------
(* Values whose Python type the code tests (images, llm_client) carry it *)

PyNone == [ py |-> "None" ]

PyStr(s) == [ py |-> "str", str |-> s ]

PyList(l) == [ py |-> "list", list |-> l ]

\* isinstance(x, list)
IsList(x) == x.py = "list"

\* bool(x) of such a value
PyTruthy(x) ==
    /\ x # PyNone
    /\ x.py = "list" => x.list # <<>>
    /\ x.py = "str" => x.str # ""

\* the exception a call ended with, in place of its return value
Raised(exception) == [ raised |-> exception ]

IsRaised(x) == "raised" \in DOMAIN x

-----------------------------------------------------------------------------
(* src/models/auction.py *)

\* Auction.__annotations__
AuctionAnnotations ==
    { "title", "url", "auction_title", "auction_url", "description",
      "evaluation", "minimum_bid", "current_bid", "next_session", "closing_at",
      "status", "images", "source", "location", "relevance", "metadata",
      "created_at" }

\* the dataclass defaults; title and url have none
AuctionDefaults ==
    [ auction_title |-> <<>>, auction_url |-> "", description |-> <<>>,
      evaluation |-> None, minimum_bid |-> None, current_bid |-> None,
      next_session |-> None, closing_at |-> None, status |-> None,
      images |-> PyList(<<>>), source |-> "", location |-> None,
      relevance |-> EmptyDict, metadata |-> EmptyDict, created_at |-> "now" ]

\* cls(**auction_data)
NewAuction(auction_data) ==
    IF /\ { "title", "url" } \subseteq DOMAIN auction_data
       /\ DOMAIN auction_data \subseteq AuctionAnnotations
    THEN auction_data @@ AuctionDefaults
    ELSE Raised("TypeError")

\* the keys the first loop of from_dict pops into metadata
PoppedKeys(data) ==
    { key \in DOMAIN data : key \notin AuctionAnnotations /\ key # "images" }

EnsureImagesList_Identity(auction_data) == auction_data

\* "Ensure images is a list"
EnsureImagesList(auction_data) ==
    IF "images" \in DOMAIN auction_data /\ ~IsList(auction_data.images)
    THEN Put(auction_data, "images",
             IF auction_data.images = PyNone
             THEN PyList(<<>>)
             ELSE PyList(<< auction_data.images.str >>))
    ELSE auction_data

\* "Handle image_url field"
HandleImageUrl(auction_data) ==
    IF "image_url" \in DOMAIN auction_data /\ Truthy(auction_data.image_url)
    THEN Drop(IF "images" \notin DOMAIN auction_data \/ ~PyTruthy(auction_data.images)
              THEN Put(auction_data, "images", PyList(<< auction_data.image_url >>))
              ELSE Put(auction_data, "images",
                       PyList(Append(auction_data.images.list, auction_data.image_url))),
              "image_url")
    ELSE auction_data

\* Auction.from_dict
from_dict(data) ==
    LET metadata == [ key \in PoppedKeys(data) |-> data[key] ]
        auction_data == [ key \in (DOMAIN data) \ PoppedKeys(data) |-> data[key] ]
    IN NewAuction(Put(HandleImageUrl(EnsureImagesList(auction_data)),
                      "metadata", metadata))

\* created_at.isoformat()
isoformat(created_at) == created_at

to_dict_DropsMetadata(self) ==
    [ key \in AuctionAnnotations \ { "metadata" } |->
        IF key = "created_at" THEN isoformat(self.created_at) ELSE self[key] ]

\* Auction.to_dict: the fixed keys, then the metadata keys not among them
to_dict(self) ==
    [ key \in AuctionAnnotations \ { "metadata" } |->
        IF key = "created_at" THEN isoformat(self.created_at) ELSE self[key] ]
    @@ self.metadata

\* Auction.from_dict(data).to_dict(), as search_all_sources chains them
Normalize(data) ==
    IF IsRaised(from_dict(data)) THEN from_dict(data) ELSE to_dict(from_dict(data))

-----------------------------------------------------------------------------
(* src/llm/deepseek_client.py and BaseAuctionAdapter.filter_relevant_auctions *)

\* DeepseekClient(api_key): self.api_key = api_key or DEEPSEEK_API_KEY
DeepseekClient(api_key) == [ api_key |-> api_key ]

\* analyze_auction_page: without a key the API is not called; otherwise the
\* result is what the API call and the parse of its answer produced
NotConfigured == [ error |-> "API not configured", is_relevant |-> None ]

analyze_auction_page(llm_client, response) ==
    IF ~Truthy(llm_client.api_key) THEN NotConfigured ELSE response

confidence_threshold == 70

\* analysis.get(key, default)
GetOr(d, key, default) == IF key \in DOMAIN d THEN d[key] ELSE default

\* the relevance mapping attached to a record
RelevanceOf(analysis) ==
    [ is_relevant |-> GetOr(analysis, "is_relevant", "False"),
      confidence |-> GetOr(analysis, "confidence", 0),
      reason |-> GetOr(analysis, "reason", "No reason provided") ]

Passes_Strict(relevance, threshold) ==
    relevance.is_relevant = "True" /\ relevance.confidence > threshold

\* is_relevant and confidence >= confidence_threshold
Passes(relevance, threshold) ==
    relevance.is_relevant = "True" /\ relevance.confidence >= threshold

\* the loop of filter_relevant_auctions: every record gets its relevance,
\* in place; the records that pass are returned
Annotated(llm_client, auctions, responses) ==
    [ i \in 1..Len(auctions) |->
        Put(auctions[i], "relevance",
            RelevanceOf(analyze_auction_page(llm_client, responses[i]))) ]

RECURSIVE SelectPassing(_, _)
SelectPassing(auctions, threshold) ==
    IF auctions = <<>> THEN <<>>
    ELSE (IF Passes(Head(auctions).relevance, threshold)
          THEN << Head(auctions) >> ELSE <<>>)
         \o SelectPassing(Tail(auctions), threshold)

\* result: the returned list; auctions: the argument list after the call
filter_relevant_auctions(llm_client, auctions, threshold, responses) ==
    IF llm_client = PyNone
    THEN [ result |-> auctions, auctions |-> auctions ]
    ELSE [ result |-> SelectPassing(Annotated(llm_client, auctions, responses), threshold),
           auctions |-> Annotated(llm_client, auctions, responses) ]

-----------------------------------------------------------------------------
(* CentralSulAdapter._extract_auction_from_element *)

\* An element of the result page, by what the lookups on it return: href is
\* the first link to a '/lote/' page on or inside the element (None when
\* there is none), text that link's text, heading the first non-blank title
\* candidate, img the src of its first <img>, prices the R$ amounts found in
\* its outerHTML; a stale element raises on the first lookup.
ElementRaises(element) == "stale" \in DOMAIN element

\* f"R$ {amount}"
Reais(amount) == <<"R", "$", " ">> \o amount

PriceFields(price_matches) ==
    IF Len(price_matches) >= 2
    THEN [ evaluation |-> Reais(price_matches[1]),
           minimum_bid |-> Reais(price_matches[2]) ]
    ELSE IF Len(price_matches) = 1
    THEN [ minimum_bid |-> Reais(price_matches[1]) ]
    ELSE EmptyDict

Unknown == <<"U","n","k","n","o","w","n">>

\* the link's text when it is not blank
LinkTitle(element) ==
    IF strip(element.text) # <<>> THEN strip(element.text) ELSE Unknown

\* "If title is still unknown, try to find it elsewhere"
ElementTitle(element) ==
    IF /\ LinkTitle(element) = Unknown
       /\ "heading" \in DOMAIN element
       /\ strip(element.heading) # <<>>
    THEN strip(element.heading)
    ELSE LinkTitle(element)

\* the record built from an element, or None (no link to a lot page)
_extract_auction_from_element(element) ==
    IF ~Truthy(element.href) THEN PyNone
    ELSE [ title |-> ElementTitle(element), description |-> <<>>, url |-> element.href ]
         @@ (IF "img" \in DOMAIN element THEN [ image_url |-> element.img ] ELSE EmptyDict)
         @@ PriceFields(element.prices)

\* the extraction loop of _selenium_search: an element that raises or gives
\* no record with a url is skipped
RECURSIVE ExtractAll(_)
ExtractAll(elements) ==
    IF elements = <<>> THEN <<>>
    ELSE LET element == Head(elements)
             auction_data == IF ElementRaises(element) THEN PyNone
                             ELSE _extract_auction_from_element(element)
         IN (IF /\ auction_data # PyNone
                /\ "url" \in DOMAIN auction_data
                /\ Truthy(auction_data.url)
             THEN << auction_data >> ELSE <<>>)
            \o ExtractAll(Tail(elements))

-----------------------------------------------------------------------------
(* CentralSulAdapter.get_auction_details *)

\* A detail page, by what each selector finds on it: lot_title (h1.lot-page-
\* title) and alt_title, lot_description (div.lot-description), the texts of
\* the alternative description elements, the label elements with the text
\* of their parent and next sibling, the text the script returns, the gallery
\* srcs, the price fields, the closing date and the page source.  A field
\* that is absent is an element that is not on the page.
LoadFailure == [ load |-> "failed" ]

MinDescriptionLen == 20

Newlines == <<"\n", "\n">>

\* s.replace(t, "")
RECURSIVE RemoveAll(_, _)
RemoveAll(s, t) ==
    IF t = <<>> \/ Len(s) < Len(t) THEN s
    ELSE IF SubSeq(s, 1, Len(t)) = t
    THEN RemoveAll(SubSeq(s, Len(t) + 1, Len(s)), t)
    ELSE << Head(s) >> \o RemoveAll(Tail(s), t)

DetailTitle(page) ==
    IF "lot_title" \in DOMAIN page THEN strip(page.lot_title)
    ELSE IF "alt_title" \in DOMAIN page THEN strip(page.alt_title)
    ELSE Unknown

\* Method 2: the alternative elements whose text is substantial
RECURSIVE AltDescription(_)
AltDescription(elems) ==
    IF elems = <<>> THEN <<>>
    ELSE (IF Len(Head(elems)) > MinDescriptionLen
          THEN strip(Head(elems)) \o Newlines ELSE <<>>)
         \o AltDescription(Tail(elems))

\* Method 3: per label, the parent's text without the label, else the sibling
RECURSIVE LabelDescription(_)
LabelDescription(labels) ==
    IF labels = <<>> THEN <<>>
    ELSE LET label == Head(labels) IN
         (IF /\ "parent" \in DOMAIN label
             /\ Len(label.parent) > Len(label.text) + MinDescriptionLen
          THEN strip(RemoveAll(label.parent, label.text)) \o Newlines
          ELSE IF /\ "sibling" \in DOMAIN label
                  /\ Len(label.sibling) > MinDescriptionLen
          THEN strip(label.sibling) \o Newlines
          ELSE <<>>)
         \o LabelDescription(Tail(labels))

Method1or2(page) ==
    IF "lot_description" \in DOMAIN page
    THEN strip(page.lot_description)
    ELSE AltDescription(page.alt_descriptions)

\* Method 3 never entered
Method3_Skipped(page, description) == description

Method3(page, description) ==
    IF description = <<>> THEN LabelDescription(page.labels) ELSE description

Method4(page, description) ==
    IF description = <<>> /\ page.js_description # <<>>
    THEN page.js_description
    ELSE description

NoDescription == <<"N","o"," ","d","e","s","c","r","i","p","t","i","o","n"," ","a","v","a","i","l","a","b","l","e">>

DetailDescription(page) ==
    LET description == Method4(page, Method3(page, Method1or2(page)))
    IN IF description # <<>> THEN strip(description) ELSE NoDescription

\* the merge written {**auction, **enhanced_data}: the extraction wins
enrich_auction_data_LLMWins(llm_client, auction, enhanced_data) ==
    IF llm_client = PyNone \/ "html_content" \notin DOMAIN auction
    THEN auction
    ELSE enhanced_data @@ auction

\* BaseAuctionAdapter.enrich_auction_data: the original data takes precedence
enrich_auction_data(llm_client, auction, enhanced_data) ==
    IF llm_client = PyNone \/ "html_content" \notin DOMAIN auction
    THEN auction
    ELSE auction @@ enhanced_data

\* DeepseekClient.extract_auction_data: {} without a key
extract_auction_data(llm_client, extraction) ==
    IF ~Truthy(llm_client.api_key) THEN EmptyDict ELSE extraction

\* llm_client and llm_client.api_key and USE_LLM == "true"
UseLLM(llm_client, env) ==
    /\ llm_client # PyNone
    /\ Truthy(llm_client.api_key)
    /\ env.USE_LLM = "true"

get_auction_details(page, llm_client, env, extraction) ==
    IF page = LoadFailure THEN [ error |-> "WebDriverException" ]
    ELSE LET details ==
                 [ title |-> DetailTitle(page),
                   description |-> DetailDescription(page),
                   images |-> PyList(SelectSeq(page.gallery, Truthy)),
                   html_content |-> page.page_source ]
                 @@ page.price_info
                 @@ (IF "closing_at" \in DOMAIN page
                     THEN [ closing_at |-> page.closing_at ] ELSE EmptyDict)
         IN IF UseLLM(llm_client, env)
            THEN enrich_auction_data(llm_client, details,
                                     extract_auction_data(llm_client, extraction))
            ELSE details

-----------------------------------------------------------------------------
(* CentralSulAdapter._selenium_search *)

\* _get_fallback_auction_for_query
_get_fallback_auction_for_query(query) ==
    LET location_config == get_location_config(query) IN
    IF NonEmptyDict(location_config) /\ "fallback_url" \in DOMAIN location_config
    THEN location_config.fallback_url
    ELSE None

\* the direct navigation without the "if not raw_auctions" test
FallbackTried_WithCandidates(raw_auctions, query) ==
    _get_fallback_auction_for_query(query) # None

\* whether the search reaches the direct navigation to the known auction
FallbackTried(raw_auctions, query) ==
    raw_auctions = <<>> /\ _get_fallback_auction_for_query(query) # None

\* elements: what _find_auction_elements returned; page: the page the
\* fallback navigation loads
_selenium_search(query, elements, page, llm_client, env, extraction) ==
    LET raw_auctions == ExtractAll(elements) IN
    IF FallbackTried(raw_auctions, query)
    THEN LET details == get_auction_details(page, llm_client, env, extraction)
         IN IF NonEmptyDict(details) THEN << details >> ELSE <<>>
    ELSE raw_auctions

-----------------------------------------------------------------------------
(* CentralSulAdapter._fetch_descriptions *)

Placeholder == <<"C","l","i","q","u","e"," ","p","a","r","a"," ","v","e","r"," ","a"," ","d","e","s","c","r","i","c,","a~","o"," ","c","o","m","p","l","e","t","a"," ","d","o"," ","l","o","t","e">>

NeedsDescription_NoPlaceholder(auction) ==
    \/ "description" \notin DOMAIN auction
    \/ auction.description = <<>>

\* auction.get('description') in [None, "", Placeholder]
NeedsDescription(auction) ==
    \/ "description" \notin DOMAIN auction
    \/ auction.description = <<>>
    \/ auction.description = Placeholder

\* the detail page is fetched when the record also has a url
Fetches(auction) == NeedsDescription(auction) /\ Truthy(Get(auction, "url"))

\* pages[i]: the page the fetch for the i-th record loads
FetchOne(auction, page, llm_client, env, extraction) ==
    LET details == get_auction_details(page, llm_client, env, extraction) IN
    IF /\ Fetches(auction)
       /\ "description" \in DOMAIN details
       /\ details.description # <<>>
    THEN Put(auction, "description", details.description)
    ELSE auction

_fetch_descriptions_AbortsOnFailure(auctions, pages, llm_client, env, extraction) ==
    [ i \in 1..Len(auctions) |->
        IF \E j \in 1..i : Fetches(auctions[j]) /\ pages[j] = LoadFailure
        THEN auctions[i]
        ELSE FetchOne(auctions[i], pages[i], llm_client, env, extraction) ]

_fetch_descriptions(auctions, pages, llm_client, env, extraction) ==
    [ i \in 1..Len(auctions) |->
        FetchOne(auctions[i], pages[i], llm_client, env, extraction) ]

\* one navigation of get_auction_details
Visit(url, page) == [ url |-> url, loaded |-> page # LoadFailure ]

\* the navigations of _fetch_descriptions, in order, from the i-th record on
RECURSIVE FetchLog(_, _, _)
FetchLog(auctions, pages, i) ==
    IF i > Len(auctions) THEN <<>>
    ELSE (IF Fetches(auctions[i])
          THEN << Visit(auctions[i].url, pages[i]) >> ELSE <<>>)
         \o FetchLog(auctions, pages, i + 1)

-----------------------------------------------------------------------------
(* search_all_sources: tagging and normalising the adapter's records *)

\* the loop "auction_data['source'] = 'central_sul'; from_dict; to_dict":
\* a record on which from_dict raises ends the loop, the records appended
\* before it stay
TagAndNormalize_Untagged(auctions) ==
    [ i \in 1..Len(auctions) |-> Normalize(auctions[i]) ]

RECURSIVE TagAndNormalize(_)
TagAndNormalize(auctions) ==
    IF auctions = <<>> THEN <<>>
    ELSE LET auction == Normalize(Put(Head(auctions), "source", "central_sul")) IN
         IF IsRaised(auction) THEN <<>>
         ELSE << auction >> \o TagAndNormalize(Tail(auctions))

-----------------------------------------------------------------------------
(* Bounds and input domains of the function-level specifications *)

MaxQueryLen == 3
MaxDedupLen == 3
MaxFilterLen == 2

BoundedSeq(S, n) == UNION { [1..k -> S] : k \in 0..n }

QueryAlphabet == { "a'", "/", "s", "c", "x", " " }

\* ids, names and aliases as a caller may type them
TypedQueries ==
    { <<"i","t","a","p","i","r","u","b","a">>, <<"I","t","a","p","i","r","u","b","a">>, <<"I","T","A","P","I","R","U","B","A'">>, <<" ","i","t","a","p","i","r","u","b","a'","/","s","c"," ">>, <<"I","t","a","p","i","r","u","b","a","/","S","C">>,
      <<"f","l","o","r","i","a","n","o","p","o","l","i","s">>, <<"F","l","o","r","i","a","n","o'","p","o","l","i","s">>, <<"F","L","O","R","I","P","A">>, <<"f","l","o","r","i","a","n","o'","p","o","l","i","s","/","s","c">>,
      <<"b","a","l","n","e","a","r","i","o","-","c","a","m","b","o","r","i","u">>, <<"B","a","l","n","e","a'","r","i","o"," ","C","a","m","b","o","r","i","u'">>, <<"b","c">>, <<"B","C"," ">>, <<"c","a","m","b","o","r","i","u'">>,
      <<"b","a","l","n","e","a","r","i","o">>, <<"s","a","o","-","p","a","u","l","o">>, <<"S","a~","o"," ","P","a","u","l","o">>, <<"S","P">>, <<"s","a","o"," ","p","a","u","l","o","/","s","p">>,
      <<"r","i","o","-","d","e","-","j","a","n","e","i","r","o">>, <<"R","i","o"," ","d","e"," ","J","a","n","e","i","r","o">>, <<"r","i","o">>, <<"R","J">>, <<"r","i","o"," ","d","e"," ","j","a","n","e","i","r","o","/","r","j">>,
      <<"i","t","a","p","i">>, <<"I","t","a","p","i","r","u","b","a'"," ","S","C">>, <<"l","a","g","u","n","a">>, <<"s","a~","o"," ","j","o","s","e'">>, <<"l","a","g","u","n","a","/","s","c">> }

QueryInputs == TypedQueries \cup BoundedSeq(QueryAlphabet, MaxQueryLen)

DedupTitles == { <<"a">>, <<"b">> }

DedupRecords ==
    { [title |-> t] : t \in DedupTitles }
    \cup { [title |-> t, url |-> u] :
             t \in DedupTitles, u \in { None, "", "u1", "u2" } }

FilterRecords ==
    { [title |-> <<"C","a","s","a"," ","e","m"," ","I","t","a","p","i","r","u","b","a">>, description |-> <<>>, url |-> "u1"],
      [title |-> <<"T","e","r","r","e","n","o">>, description |-> <<"l","o","t","e"," ","e","m"," ","i","t","a","p","i","r","u","b","a'","/","s","c">>, url |-> "u2"],
      [title |-> <<"A","p","t","o"," ","F","l","o","r","i","p","a">>, description |-> <<>>,
       auction_title |-> <<"L","e","i","l","a","o"," ","S","C">>, url |-> "u3"],
      [title |-> <<"S","a","l","a"," ","x">>, url |-> "u4"] }

FilterQueries ==
    { <<"i","t","a","p","i","r","u","b","a">>, <<"I","t","a","p","i","r","u","b","a'">>, <<"F","L","O","R","I","P","A">>, <<"l","a","g","u","n","a">>, <<"s","c">>, <<" ">>, <<"/","/">>, <<"x","/">> }
    \cup BoundedSeq({ "a'", "/", "x" }, MaxQueryLen - 1)

MaxImages == 2
MaxRelevanceLen == 2

\* raw records as extraction and the filter hand them to Auction.from_dict
NormalizeInputs ==
    { core @@ images @@ image_url @@ extra :
        core \in { [ title |-> <<"T">>, url |-> "u1" ], [ title |-> <<"T">> ] },
        images \in { EmptyDict, [ images |-> PyNone ], [ images |-> PyStr("img0") ] }
                   \cup { [ images |-> PyList(l) ] : l \in BoundedSeq({ "img0" }, MaxImages) },
        image_url \in { EmptyDict } \cup { [ image_url |-> u ] : u \in { None, "", "img1" } },
        extra \in { EmptyDict,
                    [ match_reason |-> <<"m">> ],
                    [ match_reason |-> <<"m">>, source |-> "central_sul" ] } }

RelevanceRecords ==
    { [ title |-> <<"T">>, url |-> "u1" ],
      [ title |-> <<"V">>, url |-> "u2", html_content |-> "<html>" ] }

\* what analyze_auction_page can return once the API is called: the parsed
\* JSON of the completion, or the error result of a failed call or parse
LLMResponses ==
    { [ is_relevant |-> r, confidence |-> c, reason |-> "because" ] :
        r \in { "True", "False" }, c \in { 0, confidence_threshold - 1,
                                           confidence_threshold, 100 } }
    \cup { [ is_relevant |-> "True" ],
           EmptyDict,
           [ error |-> "Failed to parse response", is_relevant |-> None ] }

LLMClients == { PyNone, DeepseekClient(""), DeepseekClient("sk-key") }

-----------------------------------------------------------------------------
(* Function-level specifications: one call, from its arguments to its return *)

\* the pipeline is not running while a single function is exercised
PipelineIdle ==
    /\ environ = EmptyDict
    /\ driver = "None"
    /\ attempt = 0
    /\ all_auction_elements = <<>>
    /\ all_auctions = <<>>
    /\ fetched = <<>>
    /\ quits = 0
    /\ sleeps = 0
    /\ caught = <<>>
    /\ raw_candidates = <<>>

InitQuery ==
    /\ pc = "call"
    /\ arg \in [ fn : { "_generate_query_variations" }, query : QueryInputs ]
    /\ ret = <<>>
    /\ PipelineIdle

Call_generate_query_variations ==
    /\ pc = "call"
    /\ arg.fn = "_generate_query_variations"
    /\ ret' = _generate_query_variations(arg.query)
    /\ pc' = "return"
    /\ UNCHANGED arg
    /\ UNCHANGED pipeVars

SpecQuery == InitQuery /\ [][Call_generate_query_variations]_vars

InitDedup ==
    /\ pc = "call"
    /\ arg \in [ fn : { "_deduplicate_auctions", "lambda_handler" },
                 auctions : BoundedSeq(DedupRecords, MaxDedupLen) ]
    /\ ret = <<>>
    /\ PipelineIdle

Call_deduplicate_auctions ==
    /\ pc = "call"
    /\ arg.fn = "_deduplicate_auctions"
    /\ ret' = _deduplicate_auctions(arg.auctions)
    /\ pc' = "return"
    /\ UNCHANGED arg
    /\ UNCHANGED pipeVars

CallHandlerDedup ==
    /\ pc = "call"
    /\ arg.fn = "lambda_handler"
    /\ ret' = HandlerDedup(arg.auctions)
    /\ pc' = "return"
    /\ UNCHANGED arg
    /\ UNCHANGED pipeVars

NextDedup == Call_deduplicate_auctions \/ CallHandlerDedup

SpecDedup == InitDedup /\ [][NextDedup]_vars

InitFilter ==
    /\ pc = "call"
    /\ arg \in [ fn : { "_filter_auctions" },
                 raw_auctions : BoundedSeq(FilterRecords, MaxFilterLen),
                 query : FilterQueries ]
    /\ ret = <<>>
    /\ PipelineIdle

Call_filter_auctions ==
    /\ pc = "call"
    /\ arg.fn = "_filter_auctions"
    /\ ret' = _filter_auctions(arg.raw_auctions, arg.query)
    /\ pc' = "return"
    /\ UNCHANGED arg
    /\ UNCHANGED pipeVars

SpecFilter == InitFilter /\ [][Call_filter_auctions]_vars

\* the same call, seen with what it leaves in the list it was given
InitFilterInPlace ==
    /\ pc = "call"
    /\ arg \in [ fn : { "_filter_auctions in place" },
                 raw_auctions : BoundedSeq(FilterRecords, MaxFilterLen),
                 query : FilterQueries ]
    /\ ret = <<>>
    /\ PipelineIdle

Call_filter_auctions_InPlace ==
    /\ pc = "call"
    /\ arg.fn = "_filter_auctions in place"
    /\ ret' = [ filtered_auctions |-> _filter_auctions(arg.raw_auctions, arg.query),
                raw_auctions |-> MarkedInPlace(arg.raw_auctions, arg.query) ]
    /\ pc' = "return"
    /\ UNCHANGED arg
    /\ UNCHANGED pipeVars

SpecFilterInPlace == InitFilterInPlace /\ [][Call_filter_auctions_InPlace]_vars

InitNormalize ==
    /\ pc = "call"
    /\ arg \in [ fn : { "Auction.from_dict.to_dict" }, data : NormalizeInputs ]
    /\ ret = <<>>
    /\ PipelineIdle

CallNormalize ==
    /\ pc = "call"
    /\ arg.fn = "Auction.from_dict.to_dict"
    /\ ret' = Normalize(arg.data)
    /\ pc' = "return"
    /\ UNCHANGED arg
    /\ UNCHANGED pipeVars

SpecNormalize == InitNormalize /\ [][CallNormalize]_vars

InitRelevance ==
    /\ pc = "call"
    /\ arg \in { [ fn |-> "filter_relevant_auctions",
                    llm_client |-> client,
                    auctions |-> records,
                    confidence_threshold |-> confidence_threshold,
                    responses |-> answers ] :
                  client \in LLMClients,
                  records \in BoundedSeq(RelevanceRecords, MaxRelevanceLen),
                  answers \in BoundedSeq(LLMResponses, MaxRelevanceLen) }
    /\ Len(arg.responses) = Len(arg.auctions)
    /\ ret = <<>>
    /\ PipelineIdle

Call_filter_relevant_auctions ==
    /\ pc = "call"
    /\ arg.fn = "filter_relevant_auctions"
    /\ ret' = filter_relevant_auctions(arg.llm_client, arg.auctions,
                                       arg.confidence_threshold, arg.responses)
    /\ pc' = "return"
    /\ UNCHANGED arg
    /\ UNCHANGED pipeVars

SpecRelevance == InitRelevance /\ [][Call_filter_relevant_auctions]_vars

-----------------------------------------------------------------------------
(* The pipeline: lambda_handler, search_all_sources, CentralSulAdapter.search *)

max_retries == 3

DEFAULT_QUERY == <<"i","t","a","p","i","r","u","b","a">>

DefaultLocation == "Santa Catarina, Brasil"

MaxElements == 3

\* what _find_auction_elements can return: two elements linking to the same
\* lot, two other lots, an element without a lot link, a stale element
PageElements ==
    { [ href |-> "u1", text |-> <<"C","a","s","a"," ","e","m"," ","I","t","a","p","i","r","u","b","a">>, img |-> "img1",
        prices |-> << <<"9">>, <<"5">> >> ],
      [ href |-> "u1", text |-> <<" ">>, heading |-> <<"L","o","t","e"," ","I","t","a","p","i","r","u","b","a'","/","S","C">>,
        prices |-> <<>> ],
      [ href |-> "u2", text |-> <<"A","p","t","o"," ","F","l","o","r","i","p","a">>, prices |-> << <<"7">> >> ],
      [ href |-> "u3", text |-> <<"T","e","r","r","e","n","o"," ","e","m"," ","I","t","a","p","i","r","u","b","a'">>, prices |-> <<>> ],
      [ href |-> None, text |-> <<"S","o","b","r","e">>, prices |-> <<>> ],
      [ stale |-> TRUE ] }

\* the detail pages a navigation can load
DetailPages ==
    { [ lot_title |-> <<" ","C","a","s","a"," ","e","m"," ","I","t","a","p","i","r","u","b","a"," ">>, lot_description |-> <<"C","a","s","a"," ","d","e"," ","p","r","a","i","a"," ","c","o","m"," ","d","o","i","s"," ","q","u","a","r","t","o","s"," ">>,
        alt_descriptions |-> <<>>, labels |-> <<>>, js_description |-> <<>>,
        gallery |-> << "g1", "" >>, price_info |-> [ minimum_bid |-> <<"R","$"," ","5">> ],
        closing_at |-> "10/12/2025", page_source |-> "<html>1</html>" ],
      [ alt_title |-> <<"L","o","t","e"," ","2">>, alt_descriptions |-> << <<"c","u","r","t","o">> >>,
        labels |-> << [ text |-> <<"D","e","s","c","r","i","c,","a~","o">>, parent |-> <<"D","e","s","c","r","i","c,","a~","o",":"," ","v","e","r"," ","a","b","a","i","x","o">>,
                        sibling |-> <<"T","e","r","r","e","n","o"," ","d","e"," ","e","s","q","u","i","n","a"," ","e","m"," ","L","a","g","u","n","a">> ] >>,
        js_description |-> <<>>, gallery |-> <<>>, price_info |-> EmptyDict,
        page_source |-> "<html>2</html>" ],
      [ alt_descriptions |-> <<>>, labels |-> <<>>, js_description |-> <<>>,
        gallery |-> <<>>, price_info |-> EmptyDict, page_source |-> "<html>3</html>" ] }

Navigations == DetailPages \cup { LoadFailure }

\* what extract_auction_data can return once the API is called
LLMExtractions == { EmptyDict, [ location |-> "Laguna/SC", title |-> <<"L","L","M">> ] }

\* a query that is not a str (the event carries "query": null), written as
\* text holding the one token None
NotAStr == << None >>

IsStr(query) == query # NotAStr

\* the event of an invocation: a mapping with optional fields, or no mapping
Events ==
    { query @@ flags :
        query \in { EmptyDict, [ query |-> <<"F","l","o","r","i","p","a">> ], [ query |-> <<"l","a","g","u","n","a">> ] },
        flags \in { EmptyDict, [ use_llm |-> TRUE ], [ fetch_descriptions |-> FALSE ] } }
    \cup { [ query |-> <<"i","t","a","p","i","r","u","b","a">>, location |-> "Brasil" ],
           [ query |-> <<" ">> ], [ query |-> NotAStr ], PyNone }

\* the environment of the process before the invocation
ProcessEnvs == { [ DEEPSEEK_API_KEY |-> key ] : key \in { "", "sk-key" } }

\* str(flag).lower()
StrLower(flag) == IF flag THEN "true" ELSE "false"

QueryOf(event) == GetOr(event, "query", DEFAULT_QUERY)

LocationOf(event) == GetOr(event, "location", DefaultLocation)

\* the body is the mapping json.dumps serialises
Response200(deduplicated_auctions, query, location) ==
    [ statusCode |-> 200,
      body |-> [ auctions |-> deduplicated_auctions,
                 count |-> Len(deduplicated_auctions),
                 query |-> query,
                 location |-> location ] ]

Response500(exception) == [ statusCode |-> 500, body |-> [ error |-> exception ] ]

Init ==
    /\ pc = "lambda_handler"
    /\ arg \in Events
    /\ ret = <<>>
    /\ environ \in ProcessEnvs
    /\ driver = "None"
    /\ attempt = 0
    /\ all_auction_elements = <<>>
    /\ all_auctions = <<>>
    /\ fetched = <<>>
    /\ quits = 0
    /\ sleeps = 0
    /\ caught = <<>>
    /\ raw_candidates = <<>>

\* lambda_handler up to the call of search_all_sources
HandlerReadsEvent ==
    /\ pc = "lambda_handler"
    /\ UNCHANGED raw_candidates
    /\ arg # PyNone
    /\ environ' = [ USE_LLM |-> StrLower(GetOr(arg, "use_llm", FALSE)),
                    FETCH_DESCRIPTIONS |-> StrLower(GetOr(arg, "fetch_descriptions", TRUE)),
                    DEDUPLICATE |-> "true" ] @@ environ
    /\ pc' = "get_chrome_driver"
    /\ UNCHANGED <<arg, ret, driver, attempt, all_auction_elements, all_auctions,
                   fetched, quits, sleeps, caught>>

HandlerRejectsEvent_Escapes ==
    /\ pc = "lambda_handler"
    /\ arg = PyNone
    /\ pc' = "raised"
    /\ UNCHANGED <<arg, ret>>
    /\ UNCHANGED pipeVars

\* event.get on something that is not a mapping: the handler's except clause
HandlerRejectsEvent ==
    /\ pc = "lambda_handler"
    /\ UNCHANGED raw_candidates
    /\ arg = PyNone
    /\ ret' = Response500("AttributeError")
    /\ pc' = "done"
    /\ UNCHANGED <<arg>>
    /\ caught' = Append(caught, "lambda_handler")
    /\ UNCHANGED <<environ, driver, attempt, all_auction_elements, all_auctions,
                   fetched, quits, sleeps>>

\* get_chrome_driver: an attempt returns the driver
DriverCreated ==
    /\ pc = "get_chrome_driver"
    /\ UNCHANGED raw_candidates
    /\ driver' = "open"
    /\ pc' = "_selenium_search"
    /\ UNCHANGED <<arg, ret, environ, attempt, all_auction_elements, all_auctions,
                   fetched, quits, sleeps, caught>>

\* the retry with "attempt == max_retries" for the last-attempt test: the
\* loop sleeps after the last attempt too and goes round once more
DriverRetry_OneTooMany ==
    /\ pc = "get_chrome_driver"
    /\ attempt < max_retries
    /\ attempt' = attempt + 1
    /\ sleeps' = sleeps + 1
    /\ UNCHANGED <<pc, arg, ret, environ, driver, all_auction_elements,
                   all_auctions, fetched, quits, caught, raw_candidates>>

\* a WebDriverException before the last attempt: sleep and try again
DriverRetry ==
    /\ pc = "get_chrome_driver"
    /\ UNCHANGED raw_candidates
    /\ attempt < max_retries - 1
    /\ attempt' = attempt + 1
    /\ sleeps' = sleeps + 1
    /\ UNCHANGED <<pc, arg, ret, environ, driver, all_auction_elements,
                   all_auctions, fetched, quits, caught>>

\* a WebDriverException on the last attempt is raised; the except clause of
\* search_all_sources logs it and the function goes on to finally
DriverGivesUp ==
    /\ pc = "get_chrome_driver"
    /\ UNCHANGED raw_candidates
    /\ attempt = max_retries - 1
    /\ pc' = "close_driver"
    /\ UNCHANGED <<arg, ret, environ, driver, attempt, all_auction_elements,
                   all_auctions, fetched, quits, sleeps>>
    /\ caught' = Append(caught, "search_all_sources")

\* any other exception of an attempt is not retried; same except clause
DriverOtherError ==
    /\ pc = "get_chrome_driver"
    /\ UNCHANGED raw_candidates
    /\ pc' = "close_driver"
    /\ UNCHANGED <<arg, ret, environ, driver, attempt, all_auction_elements,
                   all_auctions, fetched, quits, sleeps>>
    /\ caught' = Append(caught, "search_all_sources")

\* DeepseekClient() of search_all_sources
the_llm_client == DeepseekClient(environ.DEEPSEEK_API_KEY)

\* _selenium_search when loading the result page raises: the outer except
\* clause returns the empty raw_auctions
SeleniumSearchFails ==
    /\ pc = "_selenium_search"
    /\ all_auctions' = <<>>
    /\ raw_candidates' = all_auctions'
    /\ pc' = "_deduplicate_auctions"
    /\ UNCHANGED <<arg, ret, environ, driver, attempt, all_auction_elements,
                   fetched, quits, sleeps>>
    /\ caught' = Append(caught, "_selenium_search")

\* _selenium_search up to the extraction loop
FindAuctionElements ==
    /\ pc = "_selenium_search"
    /\ UNCHANGED raw_candidates
    /\ \E els \in BoundedSeq(PageElements, MaxElements) :
          all_auction_elements' = els
    /\ pc' = "_extract_auction_from_element"
    /\ UNCHANGED <<arg, ret, environ, driver, attempt, all_auctions, fetched,
                   quits, sleeps, caught>>

\* the extraction loop, the direct navigation when it found nothing and a
\* known auction exists for the query, and the return of raw_auctions; on a
\* query that is not a str get_location_config raises and the outer except
\* clause returns raw_auctions, which is empty then
ExtractAuctions ==
    /\ pc = "_extract_auction_from_element"
    /\ IF /\ IsStr(QueryOf(arg))
          /\ FallbackTried(ExtractAll(all_auction_elements), QueryOf(arg))
       THEN \E page \in Navigations, extraction \in LLMExtractions :
               /\ all_auctions' = _selenium_search(QueryOf(arg), all_auction_elements,
                                                   page, the_llm_client, environ,
                                                   extraction)
               /\ fetched' = << Visit(_get_fallback_auction_for_query(QueryOf(arg)),
                                      page) >>
       ELSE /\ all_auctions' = ExtractAll(all_auction_elements)
            /\ UNCHANGED fetched
    /\ raw_candidates' = all_auctions'
    /\ all_auction_elements' = <<>>
    /\ pc' = "_deduplicate_auctions"
    /\ UNCHANGED <<arg, ret, environ, driver, attempt, quits, sleeps>>
    /\ caught' = IF ~IsStr(QueryOf(arg)) /\ ExtractAll(all_auction_elements) = <<>>
                 THEN Append(caught, "_selenium_search")
                 ELSE caught

Deduplicate ==
    /\ pc = "_deduplicate_auctions"
    /\ UNCHANGED raw_candidates
    /\ all_auctions' = _deduplicate_auctions(all_auctions)
    /\ pc' = "_filter_auctions"
    /\ UNCHANGED <<arg, ret, environ, driver, attempt, all_auction_elements,
                   fetched, quits, sleeps, caught>>

\* if auctions and os.getenv("FETCH_DESCRIPTIONS", "true").lower() == "true"
FetchWanted(auctions) ==
    auctions # <<>> /\ GetOr(environ, "FETCH_DESCRIPTIONS", "true") = "true"

FilterByQuery ==
    /\ pc = "_filter_auctions"
    /\ UNCHANGED raw_candidates
    /\ IsStr(QueryOf(arg))
    /\ all_auctions' = _filter_auctions(all_auctions, QueryOf(arg))
    /\ pc' = IF FetchWanted(all_auctions') THEN "_fetch_descriptions" ELSE "from_dict"
    /\ UNCHANGED <<arg, ret, environ, driver, attempt, all_auction_elements,
                   fetched, quits, sleeps, caught>>

\* query.lower() in _generate_query_variations raises on a query that is
\* not a str; the except clause of search() logs it and search() returns
\* auctions as it stands, the result of _deduplicate_auctions
FilterRaises ==
    /\ pc = "_filter_auctions"
    /\ UNCHANGED raw_candidates
    /\ ~IsStr(QueryOf(arg))
    /\ caught' = Append(caught, "search")
    /\ pc' = "from_dict"
    /\ UNCHANGED <<arg, ret, environ, driver, attempt, all_auction_elements,
                   all_auctions, fetched, quits, sleeps>>

FetchDescriptions ==
    /\ pc = "_fetch_descriptions"
    /\ UNCHANGED raw_candidates
    /\ \E pages \in [ 1..Len(all_auctions) -> Navigations ],
          extraction \in LLMExtractions :
          /\ all_auctions' = _fetch_descriptions(all_auctions, pages, the_llm_client,
                                                 environ, extraction)
          /\ fetched' = fetched \o FetchLog(all_auctions, pages, 1)
    /\ pc' = "from_dict"
    /\ UNCHANGED <<arg, ret, environ, driver, attempt, all_auction_elements,
                   quits, sleeps, caught>>

\* the loop of search_all_sources over the adapter's records
TagSources ==
    /\ pc = "from_dict"
    /\ UNCHANGED raw_candidates
    /\ all_auctions' = TagAndNormalize(all_auctions)
    /\ pc' = "close_driver"
    /\ UNCHANGED <<arg, ret, environ, driver, attempt, all_auction_elements,
                   fetched, quits, sleeps, caught>>

CloseDriver_SkipsQuit ==
    /\ pc = "close_driver"
    /\ UNCHANGED raw_candidates
    /\ IF driver = "None" \/ caught # <<>>
       THEN UNCHANGED <<driver, quits, caught>>
       ELSE /\ quits' = quits + 1
            /\ driver' = "closed"
            /\ UNCHANGED caught
    /\ pc' = "return"
    /\ UNCHANGED <<arg, ret, environ, attempt, all_auction_elements, all_auctions,
                   fetched, sleeps>>

\* finally: close_driver(driver); an error of quit() is logged
CloseDriver ==
    /\ pc = "close_driver"
    /\ UNCHANGED raw_candidates
    /\ IF driver = "None"
       THEN UNCHANGED <<driver, quits, caught>>
       ELSE /\ quits' = quits + 1
            /\ \E outcome \in { "closed", "quit failed" } :
                  /\ driver' = outcome
                  /\ caught' = IF outcome = "closed" THEN caught
                               ELSE Append(caught, "close_driver")
    /\ pc' = "return"
    /\ UNCHANGED <<arg, ret, environ, attempt, all_auction_elements, all_auctions,
                   fetched, sleeps>>

\* lambda_handler after search_all_sources returned
HandlerResponds ==
    /\ pc = "return"
    /\ ret' = Response200(HandlerDedup(all_auctions), QueryOf(arg), LocationOf(arg))
    /\ pc' = "done"
    /\ UNCHANGED <<arg>>
    /\ UNCHANGED pipeVars

Next ==
    \/ HandlerReadsEvent
    \/ HandlerRejectsEvent
    \/ DriverCreated
    \/ DriverRetry
    \/ DriverGivesUp
    \/ DriverOtherError
    \/ SeleniumSearchFails
    \/ FindAuctionElements
    \/ ExtractAuctions
    \/ Deduplicate
    \/ FilterByQuery
    \/ FilterRaises
    \/ FetchDescriptions
    \/ TagSources
    \/ CloseDriver
    \/ HandlerResponds

Spec == Init /\ [][Next]_vars

-----------------------------------------------------------------------------
(* Function-level specifications over the pages of the pipeline *)

MaxFetchLen == 2

\* records as search() hands them to _fetch_descriptions: they passed
\* _deduplicate_auctions, so each has a url and no two share one
FetchRecords ==
    { [ title |-> <<"T">>, url |-> u ] @@ description :
        u \in { "u1", "u2", "u3" },
        description \in { EmptyDict, [ description |-> <<>> ],
                          [ description |-> Placeholder ],
                          [ description |-> <<"C","a","s","a"," ","c","o","m"," ","v","i","s","t","a">> ] } }

FetchInputs ==
    { auctions \in BoundedSeq(FetchRecords, MaxFetchLen) :
        \A i, j \in 1..Len(auctions) : auctions[i].url = auctions[j].url => i = j }

\* a page whose only description element holds nothing but blanks
BlankPage ==
    [ alt_descriptions |-> << [ i \in 1..(MinDescriptionLen + 1) |-> " " ] >>,
      labels |-> <<>>, js_description |-> <<>>, gallery |-> <<>>,
      price_info |-> EmptyDict, page_source |-> "<html>4</html>" ]

FetchNavigations == Navigations \cup { BlankPage }

InitFetch ==
    /\ pc = "call"
    /\ arg \in { [ fn |-> "_fetch_descriptions", auctions |-> records, pages |-> pages ] :
                  records \in FetchInputs,
                  pages \in BoundedSeq(FetchNavigations, MaxFetchLen) }
    /\ Len(arg.pages) = Len(arg.auctions)
    /\ ret = <<>>
    /\ PipelineIdle

\* auctions: the list returned (the argument, updated in place); fetched:
\* the navigations get_auction_details made
Call_fetch_descriptions ==
    /\ pc = "call"
    /\ arg.fn = "_fetch_descriptions"
    /\ ret' = [ auctions |-> _fetch_descriptions(arg.auctions, arg.pages, PyNone,
                                                 EmptyDict, EmptyDict),
                fetched |-> FetchLog(arg.auctions, arg.pages, 1) ]
    /\ pc' = "return"
    /\ UNCHANGED arg
    /\ UNCHANGED pipeVars

SpecFetch == InitFetch /\ [][Call_fetch_descriptions]_vars

-----------------------------------------------------------------------------
(* Function-level specification of get_auction_details *)

LabelText == <<"D","e","s","c","r","i","c,","a~","o">>

SiblingText == <<"T","e","r","r","e","n","o"," ","d","e"," ","e","s","q","u","i","n","a"," ","e","m"," ","L","a","g","u","n","a">>

\* the dedicated element div.lot-description: absent, empty, short, long
DedicatedElements ==
    { EmptyDict, [ lot_description |-> <<>> ], [ lot_description |-> <<"C","a","s","a">> ],
      [ lot_description |-> <<" ","C","a","s","a"," ","d","e"," ","p","r","a","i","a"," ","c","o","m"," ","d","o","i","s"," ","q","u","a","r","t","o","s"," ">> ] }

\* the texts of the elements the alternative selectors find
AlternateElements ==
    { <<>>, << <<"c","u","r","t","o">> >>, << [ i \in 1..(MinDescriptionLen + 1) |-> " " ] >>,
      << <<"A","p","a","r","t","a","m","e","n","t","o"," ","c","o","m"," ","v","i","s","t","a"," ","p","a","r","a"," ","o"," ","m","a","r">> >> }

\* the label elements: a label and its following paragraph alone in their
\* parent, the same with more text in the parent, a label whose parent
\* cannot be read, a label followed by a short paragraph
LabelElements ==
    { <<>>,
      << [ text |-> LabelText, parent |-> LabelText \o <<"\n">> \o SiblingText,
           sibling |-> SiblingText ] >>,
      << [ text |-> LabelText,
           parent |-> LabelText \o <<"\n">> \o SiblingText \o <<"\n">> \o <<"L","a","n","c","e"," ","i","n","i","c","i","a","l">>,
           sibling |-> SiblingText ] >>,
      << [ text |-> LabelText, sibling |-> SiblingText ] >>,
      << [ text |-> LabelText, parent |-> LabelText \o <<"\n">> \o <<"c","u","r","t","o">>,
           sibling |-> <<"c","u","r","t","o">> ] >> }

\* what the script returns: paragraphs of more than 50 characters, or ''
ScriptTexts ==
    { <<>>, <<"I","m","o","v","e","l"," ","c","o","m"," ","a","r","e","a"," ","d","e"," ","3","7","5",",","0","0","m","2"," ","n","o"," ","l","o","t","e","a","m","e","n","t","o"," ","B","a","l","n","e","a","r","i","o"," ","I","t","a","p","i","r","u","b","a">> \o Newlines }

DetailInputs ==
    { dedicated @@ [ alt_descriptions |-> alternates, labels |-> labels,
                     js_description |-> script, gallery |-> <<>>,
                     price_info |-> EmptyDict, page_source |-> "<html>5</html>" ] :
        dedicated \in DedicatedElements, alternates \in AlternateElements,
        labels \in LabelElements, script \in ScriptTexts }
    \cup { LoadFailure }

\* the steps of the description cascade that run on the page, in order
StepsTried(page) ==
    << "dedicated element" >>
    \o (IF "lot_description" \notin DOMAIN page
        THEN << "alternate selectors" >> ELSE <<>>)
    \o (IF Method1or2(page) = <<>> THEN << "label heuristic" >> ELSE <<>>)
    \o (IF Method3(page, Method1or2(page)) = <<>> THEN << "script" >> ELSE <<>>)

\* a record of search() that still lacks its description
Undescribed == [ title |-> <<"L","o","t","e">>, description |-> <<>>, url |-> "u1" ]

InitDetails ==
    /\ pc = "call"
    /\ arg \in [ fn : { "get_auction_details" }, page : DetailInputs ]
    /\ ret = <<>>
    /\ PipelineIdle

\* details: the dict returned; steps: the cascade steps that ran; auctions:
\* what _fetch_descriptions makes of a record whose detail page this is
Call_get_auction_details ==
    /\ pc = "call"
    /\ arg.fn = "get_auction_details"
    /\ ret' = [ details |-> get_auction_details(arg.page, PyNone, EmptyDict, EmptyDict),
                steps |-> IF arg.page = LoadFailure THEN <<>> ELSE StepsTried(arg.page),
                auctions |-> _fetch_descriptions(<< Undescribed >>, << arg.page >>,
                                                 PyNone, EmptyDict, EmptyDict) ]
    /\ pc' = "return"
    /\ UNCHANGED arg
    /\ UNCHANGED pipeVars

SpecDetails == InitDetails /\ [][Call_get_auction_details]_vars

-----------------------------------------------------------------------------
(* Function-level specification of enrich_auction_data *)

\* records with and without the page source, with and without a location
EnrichRecords ==
    { [ title |-> <<"T">>, url |-> "u1" ] @@ html @@ location :
        html \in { EmptyDict, [ html_content |-> "<html>1</html>" ] },
        location \in { EmptyDict, [ location |-> "" ], [ location |-> "Itapiruba/SC" ] } }

\* what the completion parses to: a mapping of extracted fields
EnrichExtractions ==
    LLMExtractions
    \cup { [ location |-> "Laguna/SC" ], [ location |-> "Laguna/SC", area |-> "375 m2" ] }

InitEnrich ==
    /\ pc = "call"
    /\ arg \in [ fn : { "enrich_auction_data" }, llm_client : LLMClients,
                 auction : EnrichRecords, extraction : EnrichExtractions ]
    /\ ret = <<>>
    /\ PipelineIdle

\* extraction: what the API answers when extract_auction_data calls it
Call_enrich_auction_data ==
    /\ pc = "call"
    /\ arg.fn = "enrich_auction_data"
    /\ ret' = enrich_auction_data(arg.llm_client, arg.auction,
                                  extract_auction_data(arg.llm_client, arg.extraction))
    /\ pc' = "return"
    /\ UNCHANGED arg
    /\ UNCHANGED pipeVars

SpecEnrich == InitEnrich /\ [][Call_enrich_auction_data]_vars

-----------------------------------------------------------------------------
(* Deduplication *)

Returned(fn) == pc = "return" /\ arg.fn = fn

UrlOf(auction) == Get(auction, "url")

FirstIndexOfUrl(xs, url) == Min({ i \in 1..Len(xs) : UrlOf(xs[i]) = url })

DedupContract(xs, out) ==
    /\ \A j, k \in 1..Len(out) : j # k => UrlOf(out[j]) # UrlOf(out[k])
    /\ \A j \in 1..Len(out) : Truthy(UrlOf(out[j]))
    /\ \A j \in 1..Len(out) :
          /\ \E i \in 1..Len(xs) : UrlOf(xs[i]) = UrlOf(out[j])
          /\ out[j] = xs[FirstIndexOfUrl(xs, UrlOf(out[j]))]
    /\ \A j, k \in 1..Len(out) :
          j < k => FirstIndexOfUrl(xs, UrlOf(out[j])) < FirstIndexOfUrl(xs, UrlOf(out[k]))

\* C4: deduplication (the adapter's and the handler's) returns records with
\* pairwise distinct, non-empty urls, each the first input record that carried
\* its url, in the order of first occurrence in the input.
C4_DedupFirstSeenWins ==
    (pc = "return" /\ arg.fn \in { "_deduplicate_auctions", "lambda_handler" })
        => DedupContract(arg.auctions, ret)

\* an input of three records where a later record repeats the url of the
\* first under another title and one record has no usable url
C4_Witness ==
    /\ Returned("_deduplicate_auctions")
    /\ Len(arg.auctions) = 3
    /\ \E i, j, k \in 1..3 :
          /\ i < j
          /\ UrlOf(arg.auctions[i]) = "u1" /\ UrlOf(arg.auctions[j]) = "u1"
          /\ arg.auctions[i] # arg.auctions[j]
          /\ ~Truthy(UrlOf(arg.auctions[k]))
    /\ Len(ret) = 1

\* C5: deduplication is idempotent and never returns more records than it
\* was given.
C5_DedupIdempotent ==
    Returned("_deduplicate_auctions") =>
        /\ _deduplicate_auctions(ret) = ret
        /\ Len(ret) <= Len(arg.auctions)

\* a call that dropped a duplicate and still returned two records
C5_Witness ==
    /\ Returned("_deduplicate_auctions")
    /\ Len(ret) = 2
    /\ Len(arg.auctions) = 3
    /\ \A i \in 1..3 : Truthy(UrlOf(arg.auctions[i]))

-----------------------------------------------------------------------------
(* Keyword filter *)

\* the input record a returned record was made from
Retained(auction, out) ==
    \E j \in 1..Len(out) : Drop(out[j], "match_reason") = auction

\* C6: the keyword filter retains each record whose title contains some
\* variant of the query, and excludes each record whose combined lowercased
\* text contains none of the variants.
C6_FilterRetainsTitleMatches ==
    Returned("_filter_auctions") =>
        LET variants == _generate_query_variations(arg.query) IN
        \A i \in 1..Len(arg.raw_auctions) :
            LET auction == arg.raw_auctions[i] IN
            /\ (\E k \in 1..Len(variants) :
                    Contains(lower(GetText(auction, "title")), variants[k]))
                => Retained(auction, ret)
            /\ (\A k \in 1..Len(variants) :
                    ~Contains(AuctionText(auction), variants[k]))
                => ~Retained(auction, ret)

-----------------------------------------------------------------------------
(* Query expansion *)

\* membership and distinctness under case-insensitive comparison
InListCI(l, x) == \E j \in 1..Len(l) : lower(l[j]) = lower(x)

NoDuplicatesCI(l) == \A j, k \in 1..Len(l) : j # k => lower(l[j]) # lower(l[k])

\* the query as compared: trimmed, case-insensitive
Typed(query) == strip(lower(query))

MatchesAlias(query, config) ==
    \E k \in 1..Len(config.aliases) : lower(config.aliases[k]) = Typed(query)

MatchesExactly(query, config) ==
    \/ Typed(query) = lower(config.id)
    \/ Typed(query) = lower(config.name)
    \/ MatchesAlias(query, config)

NoExactMatch(query) ==
    \A i \in 1..Len(LOCATIONS) : ~MatchesExactly(query, LOCATIONS[i])

NameSlashState(config) == config.name \o <<"/">> \o config.state

\* C7: for a query that matches an alias of a known location, the variants
\* contain, case-insensitively, the canonical name, every alias and
\* "name/state", and no two variants are equal case-insensitively.
C7_AliasQueryExpansion ==
    Returned("_generate_query_variations") =>
        \A i \in 1..Len(LOCATIONS) :
            MatchesAlias(arg.query, LOCATIONS[i]) =>
                /\ InListCI(ret, LOCATIONS[i].name)
                /\ \A k \in 1..Len(LOCATIONS[i].aliases) :
                      InListCI(ret, LOCATIONS[i].aliases[k])
                /\ InListCI(ret, NameSlashState(LOCATIONS[i]))
                /\ NoDuplicatesCI(ret)

\* an alias typed in capitals with trailing blank, expanded
C7_Witness ==
    /\ Returned("_generate_query_variations")
    /\ arg.query = <<"B","C"," ">>
    /\ MatchesAlias(arg.query, LOCATIONS[3])
    /\ Len(ret) = 7

HasDiacritics(s) == \E i \in 1..Len(s) : \E d \in Decompositions : d[1] = s[i]

\* C8: a query equal to no known id, name or alias takes the generic path:
\* with diacritics its accent-stripped form is a variant, with a slash its
\* slash-free form is a variant.
C8_GenericPathForInexactQueries ==
    (Returned("_generate_query_variations") /\ NoExactMatch(arg.query)) =>
        /\ HasDiacritics(Typed(arg.query))
              => InList(ret, RemoveAccents(Typed(arg.query)))
        /\ InList(Typed(arg.query), "/")
              => InList(ret, RemoveChar(Typed(arg.query), "/"))

\* the locations whose id or aliases contain the query as a substring
SubstringMatches(query) ==
    { i \in 1..Len(LOCATIONS) :
        \/ Contains(LOCATIONS[i].id, Typed(query))
        \/ \E k \in 1..Len(LOCATIONS[i].aliases) :
              Contains(LOCATIONS[i].aliases[k], Typed(query)) }

\* C9: a slash-free query with no exact match that is a substring of a known
\* location's id or aliases gets the variant "{query}/{state}" of the first
\* such location.
C9_CityStateVariant ==
    ( /\ Returned("_generate_query_variations")
      /\ ~InList(Typed(arg.query), "/")
      /\ NoExactMatch(arg.query)
      /\ SubstringMatches(arg.query) # {} ) =>
        InList(ret, Typed(arg.query) \o <<"/">>
                    \o lower(LOCATIONS[Min(SubstringMatches(arg.query))].state))

-----------------------------------------------------------------------------
(* Record normalisation *)

\* C2: a raw record with a non-empty image_url and no images (absent or
\* empty) normalises to images == [image_url] and no image_url key.
C2_ImageUrlBecomesImages ==
    ( /\ Returned("Auction.from_dict.to_dict")
      /\ { "title", "url" } \subseteq DOMAIN arg.data
      /\ "image_url" \in DOMAIN arg.data
      /\ Truthy(arg.data.image_url)
      /\ ("images" \in DOMAIN arg.data => arg.data.images = PyList(<<>>)) ) =>
        /\ ~IsRaised(ret)
        /\ ret.images = PyList(<< arg.data.image_url >>)
        /\ "image_url" \notin DOMAIN ret

-----------------------------------------------------------------------------
(* LLM relevance filter *)

\* the collaborator is unconfigured: no client, or a client without a key
Unconfigured(llm_client) ==
    IF llm_client = PyNone THEN TRUE ELSE ~Truthy(llm_client.api_key)

\* C10: with the LLM collaborator unconfigured the relevance filter returns
\* its input list unchanged and sets no relevance field on any record.
C10_UnconfiguredLLMPassesThrough ==
    (Returned("filter_relevant_auctions") /\ Unconfigured(arg.llm_client)) =>
        /\ ret.result = arg.auctions
        /\ \A i \in 1..Len(ret.auctions) : "relevance" \notin DOMAIN ret.auctions[i]

\* what analyze_auction_page returned for the i-th record
AnalysisOf(i) == analyze_auction_page(arg.llm_client, arg.responses[i])

\* the analysis says relevant, with a confidence that meets the threshold
MeetsThreshold(analysis, threshold) ==
    /\ "is_relevant" \in DOMAIN analysis
    /\ analysis.is_relevant = "True"
    /\ "confidence" \in DOMAIN analysis
    /\ analysis.confidence >= threshold

RelevantIndices ==
    { i \in 1..Len(arg.auctions) : MeetsThreshold(AnalysisOf(i), arg.confidence_threshold) }

\* the k-th smallest element of a set of indices
KthIndex(I, k) == CHOOSE i \in I : Cardinality({ j \in I : j < i }) = k - 1

\* C11: with a client present every input record gets a relevance mapping
\* {is_relevant, confidence, reason} and is otherwise unchanged, and the
\* records returned are, in input order, exactly those whose analysis is
\* relevant with confidence >= threshold (equality included).
C11_RelevanceFilterContract ==
    (Returned("filter_relevant_auctions") /\ arg.llm_client # PyNone) =>
        /\ Len(ret.auctions) = Len(arg.auctions)
        /\ \A i \in 1..Len(arg.auctions) :
              /\ DOMAIN ret.auctions[i] = DOMAIN arg.auctions[i] \cup { "relevance" }
              /\ \A key \in DOMAIN arg.auctions[i] :
                    ret.auctions[i][key] = arg.auctions[i][key]
              /\ DOMAIN ret.auctions[i].relevance = { "is_relevant", "confidence", "reason" }
        /\ Len(ret.result) = Cardinality(RelevantIndices)
        /\ \A k \in 1..Len(ret.result) :
              ret.result[k] = ret.auctions[KthIndex(RelevantIndices, k)]

\* two records analysed with a key: the first exactly at the threshold and
\* kept, the second relevant but just below it and dropped
C11_Witness ==
    /\ Returned("filter_relevant_auctions")
    /\ arg.llm_client = DeepseekClient("sk-key")
    /\ Len(arg.auctions) = 2
    /\ arg.responses[1] = [ is_relevant |-> "True", confidence |-> arg.confidence_threshold,
                            reason |-> "because" ]
    /\ arg.responses[2] = [ is_relevant |-> "True", confidence |-> arg.confidence_threshold - 1,
                            reason |-> "because" ]
    /\ ret.result = << ret.auctions[1] >>

-----------------------------------------------------------------------------
(* Description enrichment *)

\* the record has no usable description: absent, empty or the placeholder
LacksDescription(auction) ==
    \/ "description" \notin DOMAIN auction
    \/ auction.description = <<>>
    \/ auction.description = <<"C","l","i","q","u","e"," ","p","a","r","a"," ","v","e","r"," ","a"," ","d","e","s","c","r","i","c,","a~","o"," ","c","o","m","p","l","e","t","a"," ","d","o"," ","l","o","t","e">>

LackingIndices == { i \in 1..Len(arg.auctions) : LacksDescription(arg.auctions[i]) }

\* the description the fetch of the i-th record yields; empty when the page
\* did not load or held none
Yielded(i) ==
    LET details == get_auction_details(arg.pages[i], PyNone, EmptyDict, EmptyDict)
    IN IF "description" \in DOMAIN details THEN details.description ELSE <<>>

\* C12: _fetch_descriptions fetches the detail page of exactly the records
\* whose description is absent, empty or the placeholder, in order;
\* overwrites the description of such a record iff the fetch yields a
\* non-empty one; leaves every other record untouched; keeps length and order.
C12_FetchDescriptionsContract ==
    Returned("_fetch_descriptions") =>
        /\ Len(ret.auctions) = Len(arg.auctions)
        /\ Len(ret.fetched) = Cardinality(LackingIndices)
        /\ \A k \in 1..Len(ret.fetched) :
              ret.fetched[k].url = arg.auctions[KthIndex(LackingIndices, k)].url
        /\ \A i \in 1..Len(arg.auctions) :
              IF i \in LackingIndices /\ Yielded(i) # <<>>
              THEN /\ ret.auctions[i].description = Yielded(i)
                   /\ DOMAIN ret.auctions[i] = DOMAIN arg.auctions[i] \cup { "description" }
                   /\ \A key \in DOMAIN arg.auctions[i] \ { "description" } :
                         ret.auctions[i][key] = arg.auctions[i][key]
              ELSE ret.auctions[i] = arg.auctions[i]

\* a placeholder description replaced by the fetched one, next to a record
\* that already had a description and was not fetched
C12_Witness ==
    /\ Returned("_fetch_descriptions")
    /\ Len(arg.auctions) = 2
    /\ \A i \in 1..2 : "description" \in DOMAIN arg.auctions[i]
    /\ arg.auctions[1].description = <<"C","l","i","q","u","e"," ","p","a","r","a"," ","v","e","r"," ","a"," ","d","e","s","c","r","i","c,","a~","o"," ","c","o","m","p","l","e","t","a"," ","d","o"," ","l","o","t","e">>
    /\ arg.auctions[2].description = <<"C","a","s","a"," ","c","o","m"," ","v","i","s","t","a">>
    /\ ret.auctions[1].description = <<"C","a","s","a"," ","d","e"," ","p","r","a","i","a"," ","c","o","m"," ","d","o","i","s"," ","q","u","a","r","t","o","s">>
    /\ ret.auctions[2] = arg.auctions[2]
    /\ Len(ret.fetched) = 1

\* the fetch of the i-th record was made and failed
FetchFailed(i) == i \in LackingIndices /\ arg.pages[i] = LoadFailure

\* C13: when the detail fetch of a record fails, its description stays as it
\* was and enrichment goes on: every later record that lacks a description
\* is still fetched and gets what its own fetch yields, and all input
\* records are returned.
C13_FetchFailureIsSkipped ==
    Returned("_fetch_descriptions") =>
        \A i \in 1..Len(arg.auctions) :
            FetchFailed(i) =>
                /\ ret.auctions[i] = arg.auctions[i]
                /\ Len(ret.auctions) = Len(arg.auctions)
                /\ \A j \in (i + 1)..Len(arg.auctions) :
                      /\ ret.auctions[j].url = arg.auctions[j].url
                      /\ j \in LackingIndices =>
                            /\ \E k \in 1..Len(ret.fetched) :
                                  /\ ret.fetched[k].url = arg.auctions[j].url
                                  /\ ret.fetched[k].loaded = (arg.pages[j] # LoadFailure)
                            /\ Yielded(j) # <<>> =>
                                  GetText(ret.auctions[j], "description") = Yielded(j)

\* the first fetch fails, the second succeeds and updates its record
C13_Witness ==
    /\ Returned("_fetch_descriptions")
    /\ Len(arg.auctions) = 2
    /\ FetchFailed(1)
    /\ 2 \in LackingIndices
    /\ ret.auctions[1] = arg.auctions[1]
    /\ ret.fetched = << [ url |-> arg.auctions[1].url, loaded |-> FALSE ],
                        [ url |-> arg.auctions[2].url, loaded |-> TRUE ] >>
    /\ GetText(ret.auctions[2], "description") = <<"C","a","s","a"," ","d","e"," ","p","r","a","i","a"," ","c","o","m"," ","d","o","i","s"," ","q","u","a","r","t","o","s">>

-----------------------------------------------------------------------------
(* End to end *)

\* the invocation ended after the direct navigation to the known auction of
\* the query loaded its page; _selenium_search navigates there only when the
\* extraction loop produced no candidate
FallbackLoaded ==
    /\ pc = "done"
    /\ fetched # <<>>
    /\ fetched[1].url = _get_fallback_auction_for_query(QueryOf(arg))
    /\ fetched[1].loaded

\* C1: when the search page yields zero candidates, the query has a known
\* location with a fallback URL and the fallback detail page loads, the
\* handler returns exactly one record, the one built from that page.
C1_FallbackYieldsOneRecord ==
    FallbackLoaded =>
        /\ ret.statusCode = 200
        /\ ret.body.count = 1
        /\ Len(ret.body.auctions) = 1

\* the invocation ended without a driver although the event was read:
\* get_chrome_driver raised
AcquisitionFailed ==
    /\ pc = "done"
    /\ arg # PyNone
    /\ driver = "None"

\* C3: when get_chrome_driver raises, the failure reaches lambda_handler,
\* which answers with statusCode 500 and a body containing error.
C3_AcquisitionFailureIs500 ==
    AcquisitionFailed =>
        /\ ret.statusCode = 500
        /\ "error" \in DOMAIN ret.body

\* _selenium_search has returned: all_auctions holds its raw_auctions
SearchReturned == pc = "_deduplicate_auctions"

\* C14: every record of the raw candidate list _selenium_search returns,
\* the one of the fallback path included, has a non-empty url.
C14_RawCandidatesHaveUrl ==
    SearchReturned =>
        \A i \in 1..Len(all_auctions) : Truthy(UrlOf(all_auctions[i]))

\* the invocation ended and a stage of the source's pipeline had failed: the
\* except clause of _selenium_search or of search() was entered
SourceFailed ==
    /\ pc = "done"
    /\ \E i \in 1..Len(caught) : caught[i] \in { "_selenium_search", "search" }

\* C15: when a stage of a source's pipeline raises, the failure is caught,
\* the source contributes zero records and the invocation completes with a
\* valid result set.
C15_FailedSourceContributesNothing ==
    SourceFailed =>
        /\ ret.statusCode = 200
        /\ ret.body.count = 0
        /\ ret.body.auctions = <<>>

\* the steps of CentralSulAdapter.search, which drive the session
AdapterStages ==
    { "_selenium_search", "_extract_auction_from_element", "_deduplicate_auctions",
      "_filter_auctions", "_fetch_descriptions" }

\* C16: once the session is acquired it is closed exactly once, after all
\* adapter work and whether or not the source's pipeline raised; no adapter
\* step runs on a closed session; an error of quit() does not escape.
C16_SessionClosedOnce ==
    /\ quits <= 1
    /\ pc \in AdapterStages => (driver = "open" /\ quits = 0)
    /\ pc \in { "from_dict", "close_driver" } => quits = 0
    /\ (pc \in { "return", "done" } /\ driver # "None") =>
          (quits = 1 /\ driver \in { "closed", "quit failed" })
    /\ (pc = "done" /\ driver = "quit failed") => ret.statusCode = 200

\* the keyword filter raised, the session was still closed, quit() raised
\* too, and the handler answered
C16_Witness ==
    /\ pc = "done"
    /\ caught = << "search", "close_driver" >>
    /\ driver = "quit failed"
    /\ quits = 1
    /\ ret.statusCode = 200

\* the except clause of fn was entered
Caught(fn) == \E i \in 1..Len(caught) : caught[i] = fn

\* C17: lambda_handler always ends by returning a response: statusCode 200
\* with auctions, count, query and location when the invocation completed,
\* statusCode 500 with error when an exception reached the handler; no
\* exception leaves it: the handler is always at a position of its code, and
\* every step moves it forward (or uses up a retry), so it reaches the return.
Positions ==
    << "lambda_handler", "get_chrome_driver", "_selenium_search",
       "_extract_auction_from_element", "_deduplicate_auctions", "_filter_auctions",
       "_fetch_descriptions", "from_dict", "close_driver", "return", "done" >>

PositionOf(p) ==
    IF \E i \in 1..Len(Positions) : Positions[i] = p
    THEN CHOOSE i \in 1..Len(Positions) : Positions[i] = p
    ELSE 0

Advances ==
    \/ PositionOf(pc') > PositionOf(pc)
    \/ pc' = pc /\ attempt' > attempt /\ attempt' < max_retries

StructuredResponse ==
    pc = "done" =>
        /\ ret.statusCode \in { 200, 500 }
        /\ ret.statusCode = 200 =>
              /\ DOMAIN ret.body = { "auctions", "count", "query", "location" }
              /\ ~Caught("lambda_handler")
        /\ ret.statusCode = 500 =>
              /\ DOMAIN ret.body = { "error" }
              /\ Caught("lambda_handler")

C17_HandlerAlwaysResponds ==
    /\ [](PositionOf(pc) > 0)
    /\ []StructuredResponse
    /\ [][Advances]_vars

\* an event that is not a mapping, answered with 500 and error
C17_Witness ==
    /\ pc = "done"
    /\ arg = PyNone
    /\ ret.statusCode = 500
    /\ "error" \in DOMAIN ret.body

\* the value of a request field, or its default
Requested(field, default) == IF field \in DOMAIN arg THEN arg[field] ELSE default

\* C18: in every 200 response count is the length of auctions, the records
\* have non-empty, pairwise distinct urls and the source 'central_sul', and
\* query and location are those of the request or their defaults.
C18_ResponseInvariants ==
    (pc = "done" /\ ret.statusCode = 200) =>
        /\ ret.body.count = Len(ret.body.auctions)
        /\ \A i \in 1..Len(ret.body.auctions) :
              /\ Truthy(UrlOf(ret.body.auctions[i]))
              /\ Get(ret.body.auctions[i], "source") = "central_sul"
              /\ \A j \in 1..Len(ret.body.auctions) :
                    UrlOf(ret.body.auctions[i]) = UrlOf(ret.body.auctions[j]) => i = j
        /\ ret.body.query = Requested("query", DEFAULT_QUERY)
        /\ ret.body.location = Requested("location", "Santa Catarina, Brasil")

\* a request with its own location answered with two records
C18_Witness ==
    /\ pc = "done"
    /\ ret.statusCode = 200
    /\ "location" \in DOMAIN arg
    /\ ret.body.location = "Brasil"
    /\ ret.body.count = 2
    /\ UrlOf(ret.body.auctions[1]) # UrlOf(ret.body.auctions[2])

-----------------------------------------------------------------------------
(* Record normalisation *)

\* from_dict returned an Auction and to_dict its dictionary
Normalized == Returned("Auction.from_dict.to_dict") /\ ~IsRaised(ret)

ExtraKeys == DOMAIN arg.data \ AuctionAnnotations

-----------------------------------------------------------------------------
(* End to end: duplicates and the keyword filter *)

UrlsOf(auctions) == { UrlOf(auctions[i]) : i \in 1..Len(auctions) }

\* two of the records carry the same url
SomeShareUrl(auctions) ==
    \E i, j \in 1..Len(auctions) :
        i # j /\ Truthy(UrlOf(auctions[i])) /\ UrlOf(auctions[i]) = UrlOf(auctions[j])

\* the first record of the list with the url
FirstWithUrl(auctions, url) == auctions[FirstIndexOfUrl(auctions, url)]

\* the queries the requests carry, each with its expansion
RequestQueries == { QueryOf(event) : event \in Events } \ { NotAStr }

ExpansionOf == [ query \in RequestQueries |-> _generate_query_variations(query) ]

\* the expansion of the request's query; none when the query is not a str
VariantsOfQuery ==
    IF IsStr(QueryOf(arg)) THEN ExpansionOf[QueryOf(arg)] ELSE <<>>

\* the first variant, in expansion order, found in a text
FirstVariantInText(text, variants) ==
    LET found == { k \in 1..Len(variants) : Contains(text, variants[k]) }
    IN IF found = {} THEN << None >> ELSE variants[Min(found)]

\* the records the result page can give, each with the first variant of
\* each query found in its text
CandidateRecords ==
    { _extract_auction_from_element(element) :
        element \in { e \in PageElements : ~ElementRaises(e) /\ Truthy(e.href) } }

FirstVariantTable ==
    [ auction \in CandidateRecords, query \in RequestQueries |->
        FirstVariantInText(AuctionText(auction), ExpansionOf[query]) ]

\* the first variant of the request's query found in the record's text
FirstVariantIn(auction, variants) ==
    IF auction \in CandidateRecords /\ IsStr(QueryOf(arg))
    THEN FirstVariantTable[auction, QueryOf(arg)]
    ELSE FirstVariantInText(AuctionText(auction), variants)

\* the keyword filter keeps the record: a variant is found and the first
\* one found is not the empty string
KeptByFilter(auction, variants) ==
    LET first == FirstVariantIn(auction, variants)
    IN first # << None >> /\ first # <<>>

\* the urls of the raw candidates that reach the response
SurvivingUrls(variants) ==
    IF IsStr(QueryOf(arg))
    THEN { u \in UrlsOf(raw_candidates) :
             KeptByFilter(FirstWithUrl(raw_candidates, u), variants) }
    ELSE UrlsOf(raw_candidates)

\* C21 as stated: when raw candidates share a url, the final count is the
\* number of distinct urls among them and every surviving record carries a
\* match_reason naming a variant of the query.
C21_CountIsDistinctUrls ==
    (pc = "done" /\ SomeShareUrl(raw_candidates)) =>
        LET variants == VariantsOfQuery IN
        /\ ret.body.count = Cardinality(UrlsOf(raw_candidates))
        /\ \A i \in 1..Len(ret.body.auctions) :
              \E k \in 1..Len(variants) :
                  GetText(ret.body.auctions[i], "match_reason")
                      = <<"M","a","t","c","h","e","d"," ","t","e","r","m",":"," ">> \o variants[k]

\* C21: when raw candidates share a url, the final count is the number of
\* distinct urls whose first-seen candidate the keyword filter keeps, the
\* response holds exactly those urls, and every surviving record carries
\* "Matched term: " followed by the first variant of the query found in the
\* text of that candidate; under a query that is not a str the filter raises,
\* every distinct url survives and no record carries a match_reason.
C21_CountIsKeptDistinctUrls ==
    (pc = "done" /\ SomeShareUrl(raw_candidates)) =>
        LET variants == VariantsOfQuery
            surviving == SurvivingUrls(variants)
        IN /\ ret.statusCode = 200
           /\ ret.body.count = Cardinality(surviving)
           /\ UrlsOf(ret.body.auctions) = surviving
           /\ \A i \in 1..Len(ret.body.auctions) :
                 LET auction == ret.body.auctions[i] IN
                 IF IsStr(QueryOf(arg))
                 THEN GetText(auction, "match_reason")
                        = <<"M","a","t","c","h","e","d"," ","t","e","r","m",":"," ">>
                          \o FirstVariantIn(FirstWithUrl(raw_candidates, UrlOf(auction)),
                                            variants)
                 ELSE "match_reason" \notin DOMAIN auction

\* the default query, three candidates of which the first two share a url:
\* two records survive, matched by "itapiruba" and by its accented alias
C21_Witness ==
    /\ pc = "done"
    /\ "query" \notin DOMAIN arg
    /\ Len(raw_candidates) = 3
    /\ UrlOf(raw_candidates[1]) = UrlOf(raw_candidates[2])
    /\ UrlOf(raw_candidates[3]) # UrlOf(raw_candidates[1])
    /\ ret.body.count = 2
    /\ GetText(ret.body.auctions[1], "match_reason")
          = <<"M","a","t","c","h","e","d"," ","t","e","r","m",":"," ","i","t","a","p","i","r","u","b","a">>
    /\ GetText(ret.body.auctions[2], "match_reason")
          = <<"M","a","t","c","h","e","d"," ","t","e","r","m",":"," ","i","t","a","p","i","r","u","b","a'">>

-----------------------------------------------------------------------------
(* Keyword filter: match_reason *)

\* the positions of the variants found in the text of the i-th record given
FoundVariants(i) ==
    LET variants == _generate_query_variations(arg.query) IN
    { k \in 1..Len(variants) :
        Contains(AuctionText(arg.raw_auctions[i]), variants[k]) }

\* the i-th record given is among the records returned
RetainedAt(i) ==
    \E j \in 1..Len(ret.filtered_auctions) :
        /\ ret.filtered_auctions[j] = ret.raw_auctions[i]
        /\ Drop(ret.filtered_auctions[j], "match_reason") = arg.raw_auctions[i]

\* C22: every record the keyword filter retains carries as match_reason the
\* first variant, in expansion order, found in its combined text, and is
\* otherwise unchanged; a record the filter excludes is left as it was,
\* without match_reason.
C22_MatchReasonIsFirstVariant ==
    Returned("_filter_auctions in place") =>
        LET variants == _generate_query_variations(arg.query) IN
        /\ Len(ret.raw_auctions) = Len(arg.raw_auctions)
        /\ \A j \in 1..Len(ret.filtered_auctions) :
              \E i \in 1..Len(arg.raw_auctions) :
                  ret.filtered_auctions[j] = ret.raw_auctions[i]
        /\ \A i \in 1..Len(arg.raw_auctions) :
              IF RetainedAt(i)
              THEN /\ FoundVariants(i) # {}
                   /\ GetText(ret.raw_auctions[i], "match_reason")
                        = <<"M","a","t","c","h","e","d"," ","t","e","r","m",":"," ">>
                          \o variants[Min(FoundVariants(i))]
              ELSE /\ ret.raw_auctions[i] = arg.raw_auctions[i]
                   /\ "match_reason" \notin DOMAIN ret.raw_auctions[i]

\* a record whose text holds two variants of the query, retained under the
\* earlier one, next to an excluded record that is left untouched
C22_Witness ==
    /\ Returned("_filter_auctions in place")
    /\ arg.query = <<"i","t","a","p","i","r","u","b","a">>
    /\ Len(arg.raw_auctions) = 2
    /\ Cardinality(FoundVariants(1)) >= 2
    /\ FoundVariants(2) = {}
    /\ Len(ret.filtered_auctions) = 1
    /\ GetText(ret.filtered_auctions[1], "match_reason")
          = <<"M","a","t","c","h","e","d"," ","t","e","r","m",":"," ","i","t","a","p","i","r","u","b","a'">>
    /\ ret.raw_auctions[2] = arg.raw_auctions[2]

-----------------------------------------------------------------------------
(* Fallback by known location *)

\* the known location each request query resolves to ({} when none)
ResolvedLocation == [ query \in RequestQueries |-> get_location_config(query) ]

\* the request's query resolves to a known location with a fallback url
ResolvesToFallback ==
    /\ IsStr(QueryOf(arg))
    /\ NonEmptyDict(ResolvedLocation[QueryOf(arg)])
    /\ "fallback_url" \in DOMAIN ResolvedLocation[QueryOf(arg)]

\* the navigations a step adds to those made so far
NewVisits(before, after) ==
    { after[k] : k \in (Len(before) + 1)..Len(after) }

\* a step of the extraction loop's end: what it fetches and returns
FallbackStep ==
    LET extracted == ExtractAll(all_auction_elements) IN
    /\ (fetched' # fetched) <=> (extracted = <<>> /\ ResolvesToFallback)
    /\ fetched' # fetched =>
          /\ Len(fetched') = Len(fetched) + 1
          /\ fetched'[Len(fetched')].url = ResolvedLocation[QueryOf(arg)].fallback_url
          /\ Len(raw_candidates') = 1
          /\ fetched'[Len(fetched')].loaded <=> "error" \notin DOMAIN raw_candidates'[1]
    /\ fetched' = fetched => raw_candidates' = extracted
    /\ all_auctions' = raw_candidates'

\* any other step fetches only the detail pages of the records in flight
NoFallbackStep ==
    \A visit \in NewVisits(fetched, fetched') :
        /\ visit.url \in UrlsOf(all_auctions)
        /\ \A i \in 1..Len(LOCATIONS) :
              "fallback_url" \in DOMAIN LOCATIONS[i]
                  => visit.url # LOCATIONS[i].fallback_url

\* C23: _selenium_search fetches the fallback detail page iff extraction
\* produced zero candidates and the query resolves to a known location with a
\* fallback url; its record is then the entire raw result; with a candidate
\* extracted the raw result is the candidates, and no later step (the keyword
\* filter dropping all of them included) fetches the fallback page.
C23_FallbackIffNothingExtracted ==
    [][ IF pc = "_extract_auction_from_element" THEN FallbackStep ELSE NoFallbackStep ]_vars

\* the search found nothing for the default query, loaded the known auction's
\* page and returned the one record built from it
C23_Witness ==
    /\ pc = "_deduplicate_auctions"
    /\ "query" \notin DOMAIN arg
    /\ fetched = << [ url |-> FallbackUrlItapiruba, loaded |-> TRUE ] >>
    /\ Len(raw_candidates) = 1
    /\ GetText(raw_candidates[1], "title") = <<"C","a","s","a"," ","e","m"," ","I","t","a","p","i","r","u","b","a">>
    /\ all_auctions = raw_candidates

-----------------------------------------------------------------------------
(* Detail page: the description cascade *)

\* get_auction_details returned the details of a page that loaded
PageLoaded == Returned("get_auction_details") /\ arg.page # LoadFailure

Tried(step) == InList(ret.steps, step)

\* the text a cascade step finds on the page, taken by itself
FoundBy(step) ==
    IF step = "dedicated element"
    THEN (IF "lot_description" \in DOMAIN arg.page THEN arg.page.lot_description ELSE <<>>)
    ELSE IF step = "alternate selectors" THEN AltDescription(arg.page.alt_descriptions)
    ELSE IF step = "label heuristic" THEN LabelDescription(arg.page.labels)
    ELSE arg.page.js_description

\* non-empty and longer than the threshold once trimmed
Usable(text) == Len(strip(text)) > 20

CascadeOrder ==
    << "dedicated element", "alternate selectors", "label heuristic", "script" >>

\* C24: a cascade step runs only if the steps before it produced no usable
\* description, and any text taken from the page as the description is
\* longer than 20 characters.
C24_CascadeIsLengthGated ==
    PageLoaded =>
        /\ \A k \in 1..Len(CascadeOrder) :
              Tried(CascadeOrder[k]) =>
                  \A j \in 1..(k - 1) :
                      ~(Tried(CascadeOrder[j]) /\ Usable(FoundBy(CascadeOrder[j])))
        /\ ret.details.description # NoDescription =>
              Len(ret.details.description) > 20

\* the page has no dedicated description element and a label "Descricao"
\* followed by a paragraph of more than 20 characters
LabelledSibling(label) ==
    /\ label.text = <<"D","e","s","c","r","i","c,","a~","o">>
    /\ "sibling" \in DOMAIN label
    /\ Len(label.sibling) > 20

\* C25 as stated: on a page without dedicated description element where a
\* label "Descricao" is followed by a sibling paragraph of more than 20
\* characters, the description returned, and written by enrichment, is the
\* sibling's text.
C25_SiblingOfLabel ==
    (PageLoaded /\ "lot_description" \notin DOMAIN arg.page) =>
        \A k \in 1..Len(arg.page.labels) :
            LabelledSibling(arg.page.labels[k]) =>
                /\ ret.details.description = arg.page.labels[k].sibling
                /\ ret.auctions[1].description = arg.page.labels[k].sibling

\* the label and the paragraph are alone in their parent, or the parent
\* cannot be read
AloneInParent(label) ==
    "parent" \in DOMAIN label =>
        label.parent = label.text \o <<"\n">> \o label.sibling

\* no element of the alternative selectors holds more than 20 characters
NoSubstantialAlternate ==
    \A k \in 1..Len(arg.page.alt_descriptions) :
        Len(arg.page.alt_descriptions[k]) <= 20

\* C25: on a page without dedicated description element and without an
\* alternative element of more than 20 characters, whose only label is a
\* "Descricao" followed by a sibling paragraph of more than 20 characters
\* that does not repeat the label, the two alone in their parent, the
\* description returned, and written by enrichment, is the sibling's text.
C25_SiblingOfLoneLabel ==
    ( /\ PageLoaded
      /\ "lot_description" \notin DOMAIN arg.page
      /\ NoSubstantialAlternate
      /\ Len(arg.page.labels) = 1
      /\ LabelledSibling(arg.page.labels[1])
      /\ AloneInParent(arg.page.labels[1])
      /\ ~Contains(arg.page.labels[1].sibling, arg.page.labels[1].text) ) =>
        /\ ret.details.description = strip(arg.page.labels[1].sibling)
        /\ ret.auctions[1].description = strip(arg.page.labels[1].sibling)

\* a page with a short alternative element and a lone label: the dedicated
\* element and the alternative selectors gave nothing, the label heuristic
\* gave the paragraph, the script did not run
C25_Witness ==
    /\ PageLoaded
    /\ "lot_description" \notin DOMAIN arg.page
    /\ Len(arg.page.alt_descriptions) = 1
    /\ NoSubstantialAlternate
    /\ Len(arg.page.labels) = 1
    /\ "parent" \in DOMAIN arg.page.labels[1]
    /\ AloneInParent(arg.page.labels[1])
    /\ LabelledSibling(arg.page.labels[1])
    /\ ret.steps = << "dedicated element", "alternate selectors", "label heuristic" >>
    /\ ret.details.description = <<"T","e","r","r","e","n","o"," ","d","e"," ","e","s","q","u","i","n","a"," ","e","m"," ","L","a","g","u","n","a">>
    /\ ret.auctions[1].description = ret.details.description

-----------------------------------------------------------------------------
(* Acquiring the browser session *)

\* C26: get_chrome_driver terminates: the attempts are numbered below
\* max_retries, each failed attempt but the last is followed by one wait and
\* the next attempt, the first session created is returned without further
\* attempt, and the last attempt either returns it or raises.
C26_BoundedDriverRetry ==
    [][ pc = "get_chrome_driver" =>
          /\ attempt \in 0..(max_retries - 1)
          /\ sleeps = attempt
          /\ \/ /\ pc' = pc
                /\ attempt < max_retries - 1
                /\ attempt' = attempt + 1
                /\ sleeps' = sleeps + 1
                /\ driver' = "None"
             \/ /\ pc' = "_selenium_search"
                /\ driver' = "open"
                /\ attempt' = attempt
                /\ sleeps' = sleeps
             \/ /\ pc' = "close_driver"
                /\ driver' = "None"
                /\ attempt' = attempt
                /\ sleeps' = sleeps
                /\ caught' = Append(caught, "search_all_sources")
          /\ attempt = max_retries - 1 => pc' # pc ]_vars

\* every attempt failed: two waits, then the exception of the last attempt
\* reached search_all_sources
C26_Witness ==
    /\ pc = "close_driver"
    /\ driver = "None"
    /\ attempt = max_retries - 1
    /\ sleeps = max_retries - 1
    /\ caught = << "search_all_sources" >>

-----------------------------------------------------------------------------
(* LLM enrichment of a record *)

\* C27: enrich_auction_data returns the record unchanged when there is no
\* LLM client or the record has no html_content; otherwise every key of the
\* record keeps its value in the result, and every other key of the result
\* comes, with its value, from the LLM extraction.
C27_OriginalTakesPrecedence ==
    Returned("enrich_auction_data") =>
        IF arg.llm_client = PyNone \/ "html_content" \notin DOMAIN arg.auction
        THEN ret = arg.auction
        ELSE /\ \A key \in DOMAIN arg.auction :
                   key \in DOMAIN ret /\ ret[key] = arg.auction[key]
             /\ \A key \in DOMAIN ret \ DOMAIN arg.auction :
                   /\ Truthy(arg.llm_client.api_key)
                   /\ key \in DOMAIN arg.extraction
                   /\ ret[key] = arg.extraction[key]

\* a record with its own location, enriched by an extraction that names
\* another location and an area: the location stays, the area is added
C27_Witness ==
    /\ Returned("enrich_auction_data")
    /\ arg.llm_client # PyNone
    /\ "html_content" \in DOMAIN arg.auction
    /\ "location" \in DOMAIN arg.auction
    /\ arg.auction.location = "Itapiruba/SC"
    /\ arg.extraction = [ location |-> "Laguna/SC", area |-> "375 m2" ]
    /\ ret = arg.auction @@ [ area |-> "375 m2" ]

-----------------------------------------------------------------------------
(* Keyword filter: the empty query *)

EmptyAfterTrim(query) == strip(query) = <<>>

\* C28: for a query that is empty after trimming, the first variant of the
\* expansion is the empty string, which is found in every record's text and
\* is the variant the loop stops at; it counts as no match, so
\* _filter_auctions returns the empty list whatever the records are.
C28_EmptyQueryFiltersEverything ==
    (Returned("_filter_auctions") /\ EmptyAfterTrim(arg.query)) =>
        LET variants == _generate_query_variations(arg.query) IN
        /\ Head(variants) = <<>>
        /\ \A i \in 1..Len(arg.raw_auctions) :
              LET auction_text == AuctionText(arg.raw_auctions[i]) IN
              /\ Contains(auction_text, Head(variants))
              /\ MatchedVariation(variants, auction_text) = <<>>
        /\ ret = <<>>

\* a blank query over a record whose text contains a later, non-empty
\* variant of the location the blank query resolves to: nothing is returned
C28_Witness ==
    /\ Returned("_filter_auctions")
    /\ arg.query = <<" ">>
    /\ arg.raw_auctions # <<>>
    /\ LET variants == _generate_query_variations(arg.query) IN
       \E k \in 2..Len(variants) :
          /\ variants[k] # <<>>
          /\ Contains(AuctionText(arg.raw_auctions[1]), variants[k])
    /\ ret = <<>>

-----------------------------------------------------------------------------
(* Deduplication before the keyword filter *)

\* search() has returned: all_auctions is its result
AdapterReturned == pc = "from_dict"

\* the record matches the request's query: the keyword filter keeps it
MatchesQuery(auction) ==
    IsStr(QueryOf(arg)) /\ KeptByFilter(auction, VariantsOfQuery)

\* C29: a url is in the result of search() if and only if the first-seen
\* raw record with that url matches the query; a later record with the same
\* url does not bring the url back.
C29_UrlIffFirstSeenMatches ==
    AdapterReturned =>
        /\ UrlsOf(all_auctions) \subseteq UrlsOf(raw_candidates)
        /\ \A url \in UrlsOf(raw_candidates) :
              Truthy(url) =>
                  (url \in UrlsOf(all_auctions)
                      <=> MatchesQuery(FirstWithUrl(raw_candidates, url)))

-----------------------------------------------------------------------------
(* Detail fetch: the description of last resort *)

\* the fetch of the i-th record was made and the page loaded
FetchSucceeded(i) == i \in LackingIndices /\ arg.pages[i] # LoadFailure

\* what the cascade leaves in description before the final strip
CascadeText(page) == Method4(page, Method3(page, Method1or2(page)))

\* C30: when the detail fetch of a record succeeds and no step of the
\* cascade yields description text, the fetch yields "No description
\* available" and _fetch_descriptions writes it over the empty or placeholder
\* description; hence no record whose fetch succeeded has an empty
\* description afterwards.
C30_FetchedRecordsAreDescribed ==
    Returned("_fetch_descriptions") =>
        \A i \in 1..Len(arg.auctions) :
            FetchSucceeded(i) =>
                /\ strip(CascadeText(arg.pages[i])) = <<>> =>
                      /\ Yielded(i) = NoDescription
                      /\ GetText(ret.auctions[i], "description") = NoDescription
                /\ "description" \in DOMAIN ret.auctions[i]
                /\ ret.auctions[i].description # <<>>

====
